---- MODULE Spec2Model ----
(***************************************************************************)
(* A model of the FusionSolar report generator: the response cache        *)
(* (src/src/cache_manager.py), the API client (src/src/fusionsolar_api.py), *)
(* the data extractor (src/src/extrator_dados.py), the metrics calculator  *)
(* (src/src/calculos.py) and the batch loop of src/main.py.                *)
(*                                                                         *)
(* Time is counted in ticks.  The token validity window (25 minutes) and   *)
(* the cache TTL (24 hours) are scaled to a few ticks; the comparisons     *)
(* made on them are the ones the code makes.                               *)
(***************************************************************************)
EXTENDS Integers, Sequences, FiniteSets, TLC

VARIABLES
    now,        \* datetime.now(), in ticks
    enabled,    \* CacheManager.enabled
    files,      \* the cache directory: cache key -> content of <key>.json
    setPc,      \* position of a CacheManager.set in progress, or Idle
    cacheRet,   \* what the last CacheManager call returned
    written,    \* history: per key, the last completed set nothing touched since
    keyIn,      \* inputs of two _generate_key calls
    keyOut,     \* their results
    token,      \* FusionSolarAPI.token
    token_expiry, \* FusionSolarAPI.token_expiry
    header,     \* session.headers['XSRF-TOKEN']
    api,        \* the domain operation in progress: its position and its trace
    inv,        \* a run of ExtratorDados._obter_kpis_inversores
    mensal,     \* a run of ExtratorDados._processar_dados_mensais
    extr,       \* a run of ExtratorDados.comparar_com_mes_anterior
    calc,       \* a call of a function of calculos.py: arguments and result
    sem,        \* a run of ExtratorDados._calcular_semanas
    lote,       \* the batch loop of main()
    alm,        \* a run of ExtratorDados._processar_alarmes
    ana,        \* a run of ExtratorDados._calcular_analises
    rl,         \* a day-by-day fetch paced by ExtratorDados._rate_limit_wait
    est,        \* an ExtratorDados instance: its station list and its extractions
    dia         \* the daily readings of one extraction

cacheVars == <<now, enabled, files, setPc, cacheRet, written>>
keyVars == <<keyIn, keyOut>>
apiVars == <<token, token_expiry, header, api>>
extVars == <<inv, mensal, extr, calc, sem, lote, alm, ana, rl, est, dia>>
vars == <<now, enabled, files, setPc, cacheRet, written, keyIn, keyOut,
          token, token_expiry, header, api, inv, mensal, extr, calc, sem, lote,
          alm, ana, rl, est, dia>>

\* what the operations of one component leave alone
notCache == <<keyVars, apiVars, extVars>>
notKey == <<cacheVars, apiVars, extVars>>
notApi == <<setPc, cacheRet, written, keyVars, extVars>>
notExt == <<cacheVars, keyVars, apiVars>>
notMensais == <<inv, mensal, extr, calc, sem, lote, notExt>>
notInv == <<mensal, extr, calc, sem, lote, alm, ana, rl, est, dia, notExt>>
notMensal == <<inv, extr, calc, sem, lote, alm, ana, rl, est, dia, notExt>>
notExtr == <<inv, mensal, calc, sem, lote, alm, ana, rl, est, dia, notExt>>
notCalc == <<inv, mensal, extr, sem, lote, alm, ana, rl, est, dia, notExt>>
notSem == <<inv, mensal, extr, calc, lote, alm, ana, rl, est, dia, notExt>>
notLote == <<inv, mensal, extr, calc, sem, alm, ana, rl, est, dia, notExt>>
notAlm == <<ana, rl, est, dia, notMensais>>
notAna == <<alm, rl, est, dia, notMensais>>
notRl == <<alm, ana, est, dia, notMensais>>
notEst == <<alm, ana, rl, dia, notMensais>>
notDia == <<alm, ana, rl, est, notMensais>>

(***************************************************************************)
(* Bounds of the model.                                                    *)
(***************************************************************************)
MaxNow == 3
TtlTicks == 2
MaxParams == 2
TokenTicks == 2
MaxDevices == 3
MaxDays == 3

None == [kind |-> "None"]
Idle == [kind |-> "idle"]

\* the parts of the program a specification does not exercise stay as they
\* are before use
KeyIdle == keyIn = None /\ keyOut = None

CacheIdle ==
    /\ now = 0 /\ enabled = TRUE /\ files = None
    /\ setPc = Idle /\ cacheRet = None /\ written = None

ApiIdle ==
    /\ token = None /\ token_expiry = None /\ header = None
    /\ api = [pc |-> "idle", op |-> "none"]

ExtIdle ==
    /\ inv = Idle /\ mensal = Idle /\ extr = Idle
    /\ calc = Idle /\ sem = Idle /\ lote = Idle
    /\ alm = Idle /\ ana = Idle /\ rl = Idle /\ est = Idle /\ dia = Idle

\* the runs of the extractor's later helpers, before use
MaisIdle == alm = Idle /\ ana = Idle /\ rl = Idle /\ est = Idle /\ dia = Idle

Max(a, b) == IF a >= b THEN a ELSE b
Min(a, b) == IF a <= b THEN a ELSE b

RECURSIVE SeqSum(_)
SeqSum(s) == IF s = <<>> THEN 0 ELSE Head(s) + SeqSum(Tail(s))

(***************************************************************************)
(* Request parameters: a Python dict is a sequence of <<key, value>> pairs *)
(* in insertion order, with distinct keys.  A value is an int or a str.    *)
(***************************************************************************)
IntVal(d) == [t |-> "int", v |-> d]
StrVal(s) == [t |-> "str", v |-> s]

ParamNames == {"collectTime", "stationCodes"}
AllParamNames ==
    <<"beginTime", "collectTime", "devIds", "devTypeId", "endTime", "language",
      "pageNo", "pageSize", "stationCodes", "systemCode", "userName">>
ParamValues == {IntVal("1"), IntVal("2"), StrVal("1")}
Endpoints == {"/thirdData/getStationRealKpi", "/thirdData/getKpiStationMonth"}

Dicts ==
    {d \in UNION {[1..n -> ParamNames \X ParamValues] : n \in 0..MaxParams} :
        \A i, j \in DOMAIN d : i # j => d[i][1] # d[j][1]}

\* dict equality of Python: the same key/value pairs, whatever the order
SameDict(p, q) == {p[i] : i \in DOMAIN p} = {q[i] : i \in DOMAIN q}

\* the order of str keys under sorted(): code point order of the names used
KeyRank(k) == CHOOSE i \in DOMAIN AllParamNames : AllParamNames[i] = k

RECURSIVE InsertSorted(_, _)
InsertSorted(pair, s) ==
    IF s = <<>> THEN <<pair>>
    ELSE IF KeyRank(pair[1]) <= KeyRank(Head(s)[1]) THEN <<pair>> \o s
    ELSE <<Head(s)>> \o InsertSorted(pair, Tail(s))

RECURSIVE SortKeys(_)
SortKeys(p) == IF p = <<>> THEN <<>> ELSE InsertSorted(Head(p), SortKeys(Tail(p)))

\* json.dumps of a value: an int prints bare, a str prints quoted
JsonValue(x) == IF x.t = "int" THEN <<x.v>> ELSE <<"\"", x.v, "\"">>

RECURSIVE JsonItems(_)
JsonItems(p) ==
    IF p = <<>> THEN <<>>
    ELSE <<"\"", Head(p)[1], "\"", ": ">> \o JsonValue(Head(p)[2])
         \o (IF Tail(p) = <<>> THEN <<>> ELSE <<", ">> \o JsonItems(Tail(p)))

\* json.dumps(params), keys in insertion order
JsonDumpsUnsorted(p) == <<"{">> \o JsonItems(p) \o <<"}">>

\* json.dumps(params, sort_keys=True)
JsonDumps(p) == <<"{">> \o JsonItems(SortKeys(p)) \o <<"}">>

\* hashlib.md5(...).hexdigest(): a digest that separates the strings of the
\* model (no two of the strings below collide)
Md5(s) == [md5 |-> s]

GenerateKeyUnsorted(endpoint, params) == Md5(<<endpoint, ":">> \o JsonDumpsUnsorted(params))

\* CacheManager._generate_key
GenerateKey(endpoint, params) == Md5(<<endpoint, ":">> \o JsonDumps(params))

(***************************************************************************)
(* Key derivation, as a pure function of two calls' inputs.                *)
(***************************************************************************)
KeyInit ==
    /\ keyIn \in [e1 : Endpoints, p1 : Dicts, e2 : Endpoints, p2 : Dicts]
    /\ keyOut = None
    /\ CacheIdle /\ ApiIdle /\ ExtIdle

KeyCompute ==
    /\ keyOut = None
    /\ keyOut' = [k1 |-> GenerateKey(keyIn.e1, keyIn.p1),
                  k2 |-> GenerateKey(keyIn.e2, keyIn.p2)]
    /\ UNCHANGED <<keyIn, notKey>>

SpecKey == KeyInit /\ [][KeyCompute]_vars

(***************************************************************************)
(* The cache store.  A file of the cache directory is absent, holds a      *)
(* complete JSON record, or holds a truncated one (json.load raises).      *)
(***************************************************************************)
Absent == [kind |-> "absent"]
Partial == [kind |-> "partial"]

Payloads == {[kind |-> "payload", id |-> i] : i \in {"P1", "P2"}}

Req(e, p) == [endpoint |-> e, params |-> p]

CacheRequests ==
    {Req("/thirdData/getStationRealKpi",
         <<<<"stationCodes", StrVal("1")>>, <<"collectTime", IntVal("1")>>>>),
     Req("/thirdData/getStationRealKpi",
         <<<<"collectTime", IntVal("1")>>, <<"stationCodes", StrVal("1")>>>>),
     Req("/thirdData/getKpiStationMonth",
         <<<<"stationCodes", StrVal("1")>>>>)}

KeyOf(r) == GenerateKey(r.endpoint, r.params)
CacheKeys == {KeyOf(r) : r \in CacheRequests}

\* the request as the caller means it: the endpoint and the key/value pairs
Logical(r) == <<r.endpoint, {r.params[i] : i \in DOMAIN r.params}>>
Logicals == {Logical(r) : r \in CacheRequests}

\* the record CacheManager.set builds (cache_data)
CacheData(r, data, t) ==
    [kind |-> "record", endpoint |-> r.endpoint, params |-> r.params,
     data |-> data, timestamp |-> t]

IsExpiredAtTtl(cache_data, t) ==
    IF "timestamp" \notin DOMAIN cache_data THEN TRUE
    ELSE (t - cache_data.timestamp) >= TtlTicks

\* CacheManager._is_expired
IsExpired(cache_data, t) ==
    IF "timestamp" \notin DOMAIN cache_data THEN TRUE
    ELSE (t - cache_data.timestamp) > TtlTicks

\* a get with no try/except around the read: what was read comes back
CacheGetValueUnguarded(fs, en, t, r) ==
    IF ~en THEN None
    ELSE LET f == fs[KeyOf(r)] IN
         IF f = Absent THEN None
         ELSE IF f = Partial THEN f
         ELSE IF IsExpired(f, t) THEN None
         ELSE f.data

\* a get that does not look at the toggle
CacheGetValueAlwaysOn(fs, en, t, r) ==
    LET f == fs[KeyOf(r)] IN
    IF f = Absent \/ f = Partial THEN None
    ELSE IF IsExpired(f, t) THEN None ELSE f.data

\* CacheManager.get: the value returned
CacheGetValue(fs, en, t, r) ==
    IF ~en THEN None
    ELSE LET f == fs[KeyOf(r)] IN
         IF f = Absent THEN None
         ELSE IF f = Partial THEN None          \* json.load raises: a miss
         ELSE IF IsExpired(f, t) THEN None
         ELSE f.data

\* a get that never unlinks
CacheGetFilesKept(fs, en, t, r) == fs

\* CacheManager.get: the cache directory it leaves
CacheGetFiles(fs, en, t, r) ==
    IF ~en THEN fs
    ELSE LET f == fs[KeyOf(r)] IN
         IF f # Absent /\ f # Partial /\ IsExpired(f, t)
         THEN [fs EXCEPT ![KeyOf(r)] = Absent]  \* cache_path.unlink()
         ELSE fs

\* CacheManager.set run to its end without an error
CacheSetFiles(fs, en, t, r, data) ==
    IF ~en THEN fs ELSE [fs EXCEPT ![KeyOf(r)] = CacheData(r, data, t)]

\* what a CacheManager.set may meet: the write goes through, open() raises,
\* or json.dump raises after the file was truncated
SetOutcomes == {"stored", "open_fails", "dump_fails"}

\* CacheManager.set, whole: a disabled cache returns at once, an exception is
\* logged and swallowed
CacheSetOutcome(fs, en, t, r, data, w) ==
    IF ~en THEN fs
    ELSE CASE w = "stored" -> CacheSetFiles(fs, en, t, r, data)
           [] w = "open_fails" -> fs
           [] w = "dump_fails" -> [fs EXCEPT ![KeyOf(r)] = Partial]

\* the history forgets every request whose file is the one touched
Touch(w, key) ==
    [l \in Logicals |->
        IF \E q \in CacheRequests : Logical(q) = l /\ KeyOf(q) = key
        THEN None ELSE w[l]]

\* what the cache directory may hold when the program starts: records left
\* by an earlier run
LeftBehind ==
    {fs \in [CacheKeys -> {Absent} \cup {CacheData(r, [kind |-> "payload", id |-> "P1"], 0) :
                                            r \in CacheRequests}] :
        \A k \in CacheKeys : fs[k] # Absent => KeyOf(Req(fs[k].endpoint, fs[k].params)) = k}

\* CacheManager.stats (file sizes are left out)
CacheStatsValue(fs, en) ==
    IF ~en
    THEN [enabled |-> en, total_files |-> 0, total_size_mb |-> 0]
    ELSE [enabled |-> en, total_files |-> Cardinality({k \in DOMAIN fs : fs[k] # Absent})]

CacheInit ==
    /\ now = 0
    /\ enabled \in BOOLEAN
    /\ files \in LeftBehind
    /\ setPc = Idle
    /\ cacheRet = None
    /\ written = [l \in Logicals |-> None]
    /\ KeyIdle /\ ApiIdle /\ ExtIdle

Tick ==
    /\ now < MaxNow
    /\ api.pc \in {"idle", "done"}
    /\ now' = now + 1
    /\ UNCHANGED <<enabled, files, setPc, cacheRet, written, notCache>>

\* get(endpoint, params), whole
CacheGet ==
    /\ setPc = Idle
    /\ \E r \in CacheRequests :
        /\ cacheRet' = [op |-> "get", req |-> r, at |-> now,
                        found |-> files[KeyOf(r)],
                        value |-> CacheGetValue(files, enabled, now, r)]
        /\ files' = CacheGetFiles(files, enabled, now, r)
    /\ UNCHANGED <<now, enabled, setPc, written, notCache>>

\* set(endpoint, params, data) up to open(cache_path, 'w'), which truncates
\* the file; a disabled cache returns at once; an open that fails is logged
CacheSetOpen ==
    /\ setPc = Idle
    /\ \E r \in CacheRequests, data \in Payloads, openOk \in BOOLEAN :
        IF ~enabled
        THEN /\ cacheRet' = [op |-> "set", req |-> r, at |-> now, value |-> None]
             /\ UNCHANGED <<files, setPc, written>>
        ELSE IF ~openOk
        THEN /\ cacheRet' = [op |-> "set", req |-> r, at |-> now, value |-> None]
             /\ written' = Touch(written, KeyOf(r))
             /\ UNCHANGED <<files, setPc>>
        ELSE /\ setPc' = [kind |-> "writing", req |-> r,
                          cache_data |-> CacheData(r, data, now),
                          previous |-> files[KeyOf(r)]]
             /\ files' = [files EXCEPT ![KeyOf(r)] = Partial]
             /\ written' = Touch(written, KeyOf(r))
             /\ UNCHANGED cacheRet
    /\ UNCHANGED <<now, enabled, notCache>>

\* json.dump and the close of the file
CacheSetDump ==
    /\ setPc # Idle
    /\ files' = [files EXCEPT ![KeyOf(setPc.req)] = setPc.cache_data]
    /\ written' = [written EXCEPT ![Logical(setPc.req)] = setPc.cache_data]
    /\ cacheRet' = [op |-> "set", req |-> setPc.req, at |-> now, value |-> None]
    /\ setPc' = Idle
    /\ UNCHANGED <<now, enabled, notCache>>

\* json.dump raises part-way (except Exception: logged, set returns)
CacheSetError ==
    /\ setPc # Idle
    /\ cacheRet' = [op |-> "set_error", req |-> setPc.req, at |-> now, value |-> None]
    /\ setPc' = Idle
    /\ UNCHANGED <<now, enabled, files, written, notCache>>

\* the host process is interrupted during the write
CacheSetInterrupt ==
    /\ setPc # Idle
    /\ cacheRet' = [op |-> "interrupted", req |-> setPc.req, at |-> now, value |-> None]
    /\ setPc' = Idle
    /\ UNCHANGED <<now, enabled, files, written, notCache>>

\* clear(older_than_hours): the files it unlinks
ClearRemoves(fs, t, all, older) ==
    {k \in DOMAIN fs :
        /\ fs[k] # Absent
        /\ \/ all                               \* older_than_hours is None
           \/ /\ fs[k] # Partial                 \* json.load raises: kept
              /\ ~(fs[k].timestamp >= t - older)}

CacheClear ==
    /\ setPc = Idle
    /\ \E all \in BOOLEAN, older \in 0..TtlTicks :
        LET gone == IF enabled THEN ClearRemoves(files, now, all, older) ELSE {} IN
        /\ files' = [k \in DOMAIN files |-> IF k \in gone THEN Absent ELSE files[k]]
        /\ written' = [l \in Logicals |->
                IF \E q \in CacheRequests : Logical(q) = l /\ KeyOf(q) \in gone
                THEN None ELSE written[l]]
        /\ cacheRet' = [op |-> "clear", req |-> None, at |-> now, value |-> None,
                        removed |-> Cardinality(gone)]
    /\ UNCHANGED <<now, enabled, setPc, notCache>>

CacheStats ==
    /\ setPc = Idle
    /\ cacheRet' = [op |-> "stats", req |-> None, at |-> now, value |-> None,
                    stats |-> CacheStatsValue(files, enabled)]
    /\ UNCHANGED <<now, enabled, files, setPc, written, notCache>>

CacheNext ==
    \/ Tick
    \/ CacheGet
    \/ CacheStats
    \/ CacheSetOpen
    \/ CacheSetDump
    \/ CacheSetError
    \/ CacheSetInterrupt
    \/ CacheClear

SpecCache == CacheInit /\ [][CacheNext]_vars

(***************************************************************************)
(* The API client.  A domain operation is followed from one network call   *)
(* to the next: the server's answers are the inputs.  One client is used   *)
(* for one domain operation, called again and again.                       *)
(***************************************************************************)
RetryCount == 3

Token(i) == [kind |-> "token", id |-> i]
Tokens == {Token("T1"), Token("T2")}
Time(t) == [kind |-> "time", t |-> t]
Result == [kind |-> "payload", id |-> "R1"]
EmptyDict == [kind |-> "payload", id |-> "empty"]

ApiOps ==
    {"get_station_list", "get_station_realtime_data", "get_station_day_kpi",
     "get_station_month_daily_kpi", "get_station_month_kpi",
     "get_station_hour_kpi", "get_device_list", "get_device_realtime_kpi",
     "get_alarm_list"}

\* retry_count of the operation's _make_request call
RetryCountOf(op) == IF op = "logout" THEN 1 ELSE RetryCount

\* the login request, as login() posts it
LoginRequest ==
    Req("/thirdData/login",
        <<<<"userName", StrVal("user")>>, <<"systemCode", StrVal("secret")>>>>)

SoftOpsRealtimeOnly == {"get_station_realtime_data", "get_device_realtime_kpi"}

\* the operations that wrap _make_request in try/except Exception: return {}
SoftOps == {"get_station_realtime_data", "get_station_month_kpi", "get_device_realtime_kpi"}


\* (endpoint, data) of the operation's _make_request call
OpRequest(op) ==
    CASE op = "get_station_list" ->
            Req("/thirdData/getStationList",
                <<<<"pageNo", IntVal("1")>>, <<"pageSize", IntVal("100")>>>>)
      [] op = "get_station_realtime_data" ->
            Req("/thirdData/getStationRealKpi", <<<<"stationCodes", StrVal("1")>>>>)
      [] op = "get_station_day_kpi" ->
            Req("/thirdData/getKpiStationDay",
                <<<<"stationCodes", StrVal("1")>>, <<"collectTime", IntVal("20231115")>>>>)
      [] op = "get_station_month_daily_kpi" ->
            Req("/thirdData/getKpiStationDay",
                <<<<"stationCodes", StrVal("1")>>,
                  <<"collectTime", IntVal("1698796800000")>>>>)
      [] op = "get_station_month_kpi" ->
            Req("/thirdData/getKpiStationMonth",
                <<<<"stationCodes", StrVal("1")>>, <<"collectTime", IntVal("202311")>>>>)
      [] op = "get_station_hour_kpi" ->
            Req("/thirdData/getKpiStationHour",
                <<<<"stationCodes", StrVal("1")>>, <<"collectTime", IntVal("20231115")>>>>)
      [] op = "get_alarm_list" ->
            Req("/thirdData/getAlarmList",
                <<<<"stationCodes", StrVal("1")>>, <<"beginTime", IntVal("1")>>,
                  <<"endTime", IntVal("2")>>, <<"language", StrVal("pt_BR")>>>>)
      [] op = "get_device_list" ->
            Req("/thirdData/getDevList", <<<<"stationCodes", StrVal("1")>>>>)
      [] op = "get_device_realtime_kpi" ->
            Req("/thirdData/getDevRealKpi",
                <<<<"devIds", StrVal("1")>>, <<"devTypeId", IntVal("1")>>>>)
      [] op = "logout" -> Req("/thirdData/logout", <<>>)   \* data or {}

\* only the login left out
CacheableButLogin(r) == r.endpoint \notin {"/thirdData/login"}

\* use_cache and endpoint not in ['/thirdData/login', '/thirdData/logout']
Cacheable(r) == r.endpoint \notin {"/thirdData/login", "/thirdData/logout"}

\* what the server answers to the login request
LoginOutcomes ==
    {"ok", "ok_no_token", "invalid_credentials", "quota", "rejected", "transport", "error"}

\* what the server answers to a domain request
ResponseOutcomes == {"ok", "auth", "fail", "quota", "nonjson", "transport"}

\* the comparison with the expiry instant included
IsTokenValidInclusive(tok, exp, t) ==
    IF tok = None \/ exp = None THEN FALSE ELSE t <= exp.t

\* FusionSolarAPI._is_token_valid
IsTokenValid(tok, exp, t) ==
    IF tok = None \/ exp = None THEN FALSE ELSE t < exp.t

\* a login that drops the session it had when the server rejects it
LoginForgetsOnReject(tok, exp, hdr, t, outcome, served) ==
    CASE outcome = "ok" ->
            [token |-> served, token_expiry |-> Time(t + TokenTicks),
             header |-> served, ret |-> "True", answer |-> outcome]
      [] outcome = "ok_no_token" ->
            [token |-> None, token_expiry |-> Time(t + TokenTicks),
             header |-> None, ret |-> "True", answer |-> outcome]
      [] outcome \in {"invalid_credentials", "quota", "rejected"} ->
            [token |-> None, token_expiry |-> None, header |-> hdr, ret |-> "False",
             answer |-> outcome]
      [] outcome = "transport" ->
            [token |-> tok, token_expiry |-> exp, header |-> hdr,
             ret |-> "RequestException", answer |-> outcome]
      [] outcome = "error" ->
            [token |-> tok, token_expiry |-> exp, header |-> hdr, ret |-> "Exception",
             answer |-> outcome]

\* FusionSolarAPI.login: the fields it leaves and how it ends
Login(tok, exp, hdr, t, outcome, served) ==
    CASE outcome = "ok" ->
            [token |-> served, token_expiry |-> Time(t + TokenTicks),
             header |-> served, ret |-> "True", answer |-> outcome]
      [] outcome = "ok_no_token" ->      \* no header and no body field
            [token |-> None, token_expiry |-> Time(t + TokenTicks),
             header |-> None, ret |-> "True", answer |-> outcome]
      [] outcome \in {"invalid_credentials", "quota", "rejected"} ->
            [token |-> tok, token_expiry |-> exp, header |-> hdr, ret |-> "False",
             answer |-> outcome]
      [] outcome = "transport" ->        \* requests.exceptions.RequestException
            [token |-> tok, token_expiry |-> exp, header |-> hdr,
             ret |-> "RequestException", answer |-> outcome]
      [] outcome = "error" ->            \* any other exception
            [token |-> tok, token_expiry |-> exp, header |-> hdr, ret |-> "Exception",
             answer |-> outcome]

NewCall(op, domain, valid, cached) ==
    [pc |-> "start", op |-> op, domain |-> domain, attempt |-> 0,
     retry_count |-> RetryCountOf(op), cacheWrite |-> "none",
     startValid |-> valid, startCached |-> cached,
     logins |-> 0, loginOk |-> FALSE, loginFailed |-> FALSE, lastLogin |-> "none",
     lastRet |-> "none",
     sends |-> 0, okBeforeSend |-> FALSE, relogins |-> 0, firstAuth |-> FALSE,
     sleeps |-> <<>>, transportOnly |-> TRUE,
     reqFailed |-> "none", outcome |-> "pending", value |-> None]

AfterLogin(a, l) ==
    [a EXCEPT !.loginOk = @ \/ l.ret = "True", !.loginFailed = @ \/ l.ret # "True",
              !.lastLogin = l.answer, !.lastRet = l.ret]

\* session.post / session.get of the domain request
SendRequest(a) ==
    [a EXCEPT !.pc = "request", !.sends = @ + 1,
              !.okBeforeSend = IF a.sends = 0 THEN a.loginOk ELSE @]

\* session.post of the login request
SendLogin(a, pc) == [a EXCEPT !.pc = pc, !.logins = @ + 1]

Finish(a, outcome, value) ==
    [a EXCEPT !.pc = "done", !.outcome = outcome, !.value = value]

\* _make_request raises: a soft operation returns {}, logout logs a warning
\* and returns, the others let it through
Raised(a, kind) ==
    IF a.op \in SoftOps
    THEN Finish([a EXCEPT !.reqFailed = kind], "returned", EmptyDict)
    ELSE IF a.op = "logout"
    THEN Finish([a EXCEPT !.reqFailed = kind], "returned", None)
    ELSE Finish([a EXCEPT !.reqFailed = kind], "raised", None)

\* the next turn of `for attempt in range(retry_count)`
NextAttempt(a) ==
    IF a.attempt + 1 = a.retry_count
    THEN Raised(a, "exhausted")          \* Falha apos N tentativas
    ELSE SendRequest([a EXCEPT !.attempt = @ + 1])

\* time.sleep(2 ** attempt); seconds do not move the clock of the model
Sleep(a) == [a EXCEPT !.sleeps = Append(@, 2 ^ a.attempt)]

\* the comparison off by one: the last attempt sleeps too and the loop runs out
TransportFailureSleepsLast(a, kind) ==
    IF a.attempt = a.retry_count - 1
    THEN Raised(Sleep(a), "exhausted")
    ELSE SendRequest([Sleep(a) EXCEPT !.attempt = @ + 1])

\* except RequestException: raise on the last attempt, else sleep and go on
TransportFailure(a, kind) ==
    IF a.attempt = a.retry_count - 1
    THEN Raised(a, kind)
    ELSE SendRequest([Sleep(a) EXCEPT !.attempt = @ + 1])

\* _make_request from its first line to its first network call
EnterMakeRequest(a) ==
    LET r == OpRequest(a.op)
        cached == IF Cacheable(r) THEN CacheGetValue(files, enabled, now, r) ELSE None
    IN /\ files' = IF Cacheable(r) THEN CacheGetFiles(files, enabled, now, r) ELSE files
       /\ api' = IF cached # None THEN Finish(a, "returned", cached) ELSE SendRequest(a)

\* the token cleared only after a logout request that went through
AfterCallThatSucceeded(a, value) ==
    IF a.op = "logout" /\ a.pc = "done" /\ a.reqFailed = "none" THEN None ELSE value

\* the `finally` of logout: the token and its expiry are cleared when it ends
AfterCall(a, value) == IF a.op = "logout" /\ a.pc = "done" THEN None ELSE value

ApiInit ==
    /\ now = 0
    /\ enabled \in BOOLEAN
    /\ token = None /\ token_expiry = None /\ header = None
    /\ \E op \in ApiOps :
        /\ api = [pc |-> "idle", op |-> "none", domain |-> op]
        /\ files = [k \in {KeyOf(OpRequest(op)), KeyOf(OpRequest("logout")),
                            KeyOf(LoginRequest)} |-> Absent]
    /\ setPc = Idle /\ cacheRet = None /\ written = None
    /\ KeyIdle /\ ExtIdle

\* a domain operation up to its first network call: _ensure_authenticated,
\* then _make_request
ApiCall ==
    /\ api.pc \in {"idle", "done"}
    /\ LET r == OpRequest(api.domain)
           a == NewCall(api.domain, api.domain,
                        IsTokenValid(token, token_expiry, now),
                        CacheGetValue(files, enabled, now, r))
       IN IF a.startValid
          THEN EnterMakeRequest(a)
          ELSE /\ api' = SendLogin(a, "gate_login")
               /\ UNCHANGED files
    /\ UNCHANGED <<now, enabled, token, token_expiry, header, notApi>>

\* logout up to its network call: nothing is done without a token, and there
\* is no _ensure_authenticated
ApiLogout ==
    /\ api.pc \in {"idle", "done"}
    /\ LET a == NewCall("logout", api.domain,
                        IsTokenValid(token, token_expiry, now), None)
       IN IF token = None
          THEN /\ api' = Finish(a, "returned", None)
               /\ UNCHANGED files
          ELSE EnterMakeRequest(a)
    /\ UNCHANGED <<now, enabled, token, token_expiry, header, notApi>>

\* the answer to the login of _ensure_authenticated; its result is not looked at
GateLoginResponse ==
    /\ api.pc = "gate_login"
    /\ \E outcome \in LoginOutcomes, served \in Tokens :
        LET l == Login(token, token_expiry, header, now, outcome, served)
            a == AfterLogin(api, l)
        IN /\ token' = l.token
           /\ token_expiry' = l.token_expiry
           /\ header' = l.header
           /\ IF l.ret \in {"True", "False"}
              THEN EnterMakeRequest(a)
              ELSE /\ api' = Finish(a, "raised", None)
                   /\ UNCHANGED files
    /\ UNCHANGED <<now, enabled, notApi>>

\* the answer to the request, in the retry loop of _make_request
RequestResponse ==
    /\ api.pc = "request"
    /\ \E outcome \in ResponseOutcomes, w \in SetOutcomes :
        LET r == OpRequest(api.op)
            a == [api EXCEPT !.transportOnly = @ /\ outcome = "transport"]
            set == IF ~Cacheable(r) THEN "skipped"
                   ELSE IF ~enabled THEN "disabled" ELSE w
        IN
        CASE outcome = "ok" ->
                /\ files' = IF Cacheable(r)
                            THEN CacheSetOutcome(files, enabled, now, r, Result, w)
                            ELSE files
                /\ api' = Finish([a EXCEPT !.cacheWrite = set], "returned", Result)
          [] outcome = "auth" ->
                /\ api' = SendLogin([a EXCEPT !.relogins = @ + 1,
                                              !.firstAuth = @ \/ api.attempt = 0],
                                    "relogin")
                /\ UNCHANGED files
          [] outcome \in {"fail", "quota", "nonjson"} ->
                /\ api' = Raised(a, outcome)
                /\ UNCHANGED files
          [] outcome = "transport" ->
                /\ api' = TransportFailure(a, "transport")
                /\ UNCHANGED files
    /\ token' = AfterCall(api', token)
    /\ token_expiry' = AfterCall(api', token_expiry)
    /\ UNCHANGED <<now, enabled, header, notApi>>

\* the answer to the login made by _make_request after an auth error
ReloginResponse ==
    /\ api.pc = "relogin"
    /\ \E outcome \in LoginOutcomes, served \in Tokens :
        LET l == Login(token, token_expiry, header, now, outcome, served)
            a == AfterLogin(api, l)
        IN /\ api' = CASE l.ret \in {"True", "False"} -> NextAttempt(a)
                       [] l.ret = "RequestException" ->
                            TransportFailure(a, "relogin_transport")
                       [] l.ret = "Exception" -> Raised(a, "relogin_error")
           /\ token' = AfterCall(api', l.token)
           /\ token_expiry' = AfterCall(api', l.token_expiry)
           /\ header' = l.header
    /\ UNCHANGED <<now, enabled, files, notApi>>

ApiNext ==
    \/ Tick
    \/ ApiCall
    \/ ApiLogout
    \/ GateLoginResponse
    \/ RequestResponse
    \/ ReloginResponse

SpecApi == ApiInit /\ [][ApiNext]_vars

(***************************************************************************)
(* The extractor.  A Python dict with optional keys is a function whose    *)
(* domain is the set of keys present; an optional number is Some(x) or     *)
(* None.  Energies are in thousandths of a kWh.                            *)
(***************************************************************************)
Some(x) == [kind |-> "some", v |-> x]
EmptyMap == [k \in {} |-> 0]

\* dict.get(key, default)
Get(d, k, default) == IF k \in DOMAIN d THEN d[k] ELSE default

\* str(x) of a number (one symbol here); str('') is the empty sequence
Str(x) == <<x>>

\* round(x, 2) of thousandths, and round(x, 1) of hundredths: the nearest ten
Round2(x) == ((x + 5) \div 10) * 10

\* the devices a station may list: string inverter, residential inverter,
\* another device type, an inverter with no id
DevicesAt(i) ==
    {[id |-> i, devTypeId |-> 1], [id |-> i, devTypeId |-> 38],
     [id |-> i, devTypeId |-> 17], [devTypeId |-> 1]}

DeviceLists == UNION {{d \in [1..n -> UNION {DevicesAt(i) : i \in 1..n}] :
                          \A i \in 1..n : d[i] \in DevicesAt(i)} : n \in 0..MaxDevices}

\* dataItemMap of a device that answers
KpiItems ==
    {[total_cap |-> 10000, day_cap |-> 2000, active_power |-> 3000,
      temperature |-> 40000, run_state |-> 1],
     [total_cap |-> 7000, inverter_state |-> 0]}

FetchOutcomes == {"ok", "request_failed", "login_raised"}

\* FusionSolarAPI.get_device_realtime_kpi as the extractor sees it: the login
\* of _ensure_authenticated is outside the try, the request inside it
GetDeviceRealtimeKpi(outcome, items) ==
    CASE outcome = "ok" -> [raised |-> FALSE, kpi |-> [dataItemMap |-> items]]
      [] outcome = "login_raised" -> [raised |-> TRUE, kpi |-> EmptyMap]
      [] outcome = "request_failed" ->
            IF "get_device_realtime_kpi" \in SoftOps
            THEN [raised |-> FALSE, kpi |-> EmptyMap]
            ELSE [raised |-> TRUE, kpi |-> EmptyMap]

\* inv.get('devTypeId') in [1, 38]
IsInversor(d) == Get(d, "devTypeId", 0) \in {1, 38}

\* dev_id = str(inv.get('id', ''))
DevId(d) == IF "id" \in DOMAIN d THEN Str(d.id) ELSE <<>>

\* inversor_data of _obter_kpis_inversores
InversorData(d, kpi) ==
    LET data_items == Get(kpi, "dataItemMap", EmptyMap) IN
    [id |-> DevId(d),
     status |-> IF "run_state" \in DOMAIN data_items THEN Some(data_items.run_state)
                ELSE IF "inverter_state" \in DOMAIN data_items
                     THEN Some(data_items.inverter_state) ELSE None,
     energia_total_kwh |-> Get(data_items, "total_cap", 0),
     energia_dia_kwh |-> Get(data_items, "day_cap", 0),
     potencia_ativa_kw |-> Get(data_items, "active_power", 0),
     temperatura_c |-> Get(data_items, "temperature", 0)]

Column(kpis, f) == [j \in DOMAIN kpis |-> kpis[j][f]]
Positive(x) == x > 0

RECURSIVE SeqMax(_)
SeqMax(q) == IF Len(q) = 1 THEN Head(q) ELSE Max(Head(q), SeqMax(Tail(q)))

RECURSIVE SeqMin(_)
SeqMin(q) == IF Len(q) = 1 THEN Head(q) ELSE Min(Head(q), SeqMin(Tail(q)))

\* ExtratorDados._resumo_inversores
ResumoInversores(kpis) ==
    IF kpis = <<>> THEN EmptyMap
    ELSE LET temps == SelectSeq(Column(kpis, "temperatura_c"), Positive)
             potencias == SelectSeq(Column(kpis, "potencia_ativa_kw"), Positive)
         IN [energia_total_kwh |-> Round2(SeqSum(Column(kpis, "energia_total_kwh"))),
             energia_dia_kwh |-> Round2(SeqSum(Column(kpis, "energia_dia_kwh"))),
             temperatura_media_c |->
                 IF temps # <<>> THEN Round2(SeqSum(temps) \div Len(temps)) ELSE 0,
             temperatura_max_c |-> IF temps # <<>> THEN SeqMax(temps) ELSE 0,
             potencia_ativa_total_kw |->
                 IF potencias # <<>> THEN Round2(SeqSum(potencias)) ELSE 0,
             num_inversores_online |->
                 Cardinality({j \in DOMAIN kpis : kpis[j].status = Some(1)}),
             num_inversores_total |-> Len(kpis)]

InvInit ==
    /\ \E d \in DeviceLists :
        inv = [pc |-> "loop", dispositivos |-> d,
               inversores |-> SelectSeq(d, IsInversor), i |-> 1,
               inversores_kpi |-> <<>>, fetched |-> <<>>, resumo |-> EmptyMap]
    /\ mensal = Idle /\ extr = Idle /\ calc = Idle /\ sem = Idle /\ lote = Idle
    /\ MaisIdle
    /\ CacheIdle /\ KeyIdle /\ ApiIdle

\* one turn of `for inv in inversores`: an inverter with no id is passed over,
\* the others are fetched; an exception is logged and the loop goes on
InvFetch ==
    /\ inv # Idle /\ inv.pc = "loop" /\ inv.i <= Len(inv.inversores)
    /\ LET d == inv.inversores[inv.i] IN
       IF DevId(d) = <<>>
       THEN inv' = [inv EXCEPT !.i = @ + 1]
       ELSE \E outcome \in FetchOutcomes, items \in KpiItems :
            LET r == GetDeviceRealtimeKpi(outcome, items) IN
            inv' = [inv EXCEPT
                      !.i = @ + 1,
                      !.fetched = Append(@, [id |-> DevId(d), outcome |-> outcome]),
                      !.inversores_kpi =
                          IF r.raised THEN @ ELSE Append(@, InversorData(d, r.kpi))]
    /\ UNCHANGED notInv

\* the end of the loop, and the summary _processar_dados_mensais asks for
InvReturn ==
    /\ inv # Idle /\ inv.pc = "loop" /\ inv.i > Len(inv.inversores)
    /\ inv' = [inv EXCEPT !.pc = "done", !.resumo = ResumoInversores(inv.inversores_kpi)]
    /\ UNCHANGED notInv

InvNext == InvFetch \/ InvReturn

SpecInversores == InvInit /\ [][InvNext]_vars

(***************************************************************************)
(* C6: when the KPI fetch of one inverter fails and the others succeed,    *)
(* the failed device is absent from the list and from the summary (not     *)
(* present with zero values) and num_inversores_total counts only the      *)
(* devices whose fetch succeeded.                                          *)
(***************************************************************************)
FetchedWith(o) == {j \in DOMAIN inv.fetched : inv.fetched[j].outcome = o}

C6_FailedDeviceOmitted ==
    (inv # Idle /\ inv.pc = "done"
        /\ FetchedWith("request_failed") # {} /\ FetchedWith("ok") # {})
    => /\ \A j \in FetchedWith("request_failed") :
            \A k \in DOMAIN inv.inversores_kpi :
                inv.inversores_kpi[k].id # inv.fetched[j].id
       /\ inv.resumo.num_inversores_total = Cardinality(FetchedWith("ok"))

(***************************************************************************)
(* _processar_dados_mensais: the generation block of the report, from the  *)
(* daily readings (sorted by day, as _obter_dados_diarios_mes leaves them)  *)
(* and the monthly KPI value.                                              *)
(***************************************************************************)
Readings == {-1000, 0, 1004, 2000}
MonthlyValues == {0, 5000}

DailyLists ==
    UNION {{d \in [1..n -> [dia : 1..MaxDays, kwh : Readings]] :
                \A i \in 1..n : \A j \in 1..n : i < j => d[i].dia <= d[j].dia}
           : n \in 0..MaxDays}

\* the same list without the filter
GeracoesSemFiltro(geracao_diaria) == Column(geracao_diaria, "kwh")

\* geracoes = [d['kwh'] for d in geracao_diaria if d['kwh'] > 0]
Geracoes(geracao_diaria) == SelectSeq(Column(geracao_diaria, "kwh"), Positive)

\* round(total_kwh, 2) if total_kwh else 0
ReportTotal(total_kwh) == IF total_kwh # 0 THEN Round2(total_kwh) ELSE 0

\* the 'geracao' block
Geracao(dados_diarios, total_kwh_mensal) ==
    LET geracao_diaria == dados_diarios
        geracoes == Geracoes(geracao_diaria)
        total_kwh_diarios == SeqSum(geracoes)
        total_kwh ==
            IF geracao_diaria # <<>>
            THEN IF total_kwh_diarios > 0 THEN total_kwh_diarios ELSE total_kwh_mensal
            ELSE total_kwh_mensal
    IN [total_kwh |-> ReportTotal(total_kwh),
        max_diario |-> IF geracao_diaria = <<>> THEN None
                       ELSE Some(IF geracoes # <<>> THEN Round2(SeqMax(geracoes)) ELSE 0),
        min_diario |-> IF geracao_diaria = <<>> THEN None
                       ELSE Some(IF geracoes # <<>> THEN Round2(SeqMin(geracoes)) ELSE 0),
        dias_com_geracao |-> IF geracao_diaria = <<>> THEN None
                             ELSE Some(Len(geracoes)),
        dias_sem_geracao |-> IF geracao_diaria = <<>> THEN None
                             ELSE Some(Len(geracao_diaria) - Len(geracoes)),
        tem_dados_diarios |-> Len(geracao_diaria) > 0]

MensalInit ==
    /\ \E d \in DailyLists, m \in MonthlyValues :
        mensal = [pc |-> "start", dados_diarios |-> d, total_kwh_mensal |-> m,
                  geracao |-> None]
    /\ inv = Idle /\ extr = Idle /\ calc = Idle /\ sem = Idle /\ lote = Idle
    /\ MaisIdle
    /\ CacheIdle /\ KeyIdle /\ ApiIdle

Processar ==
    /\ mensal # Idle /\ mensal.pc = "start"
    /\ mensal' = [mensal EXCEPT
                    !.pc = "done",
                    !.geracao = Geracao(mensal.dados_diarios, mensal.total_kwh_mensal)]
    /\ UNCHANGED notMensal

MensalNext == Processar

SpecMensal == MensalInit /\ [][MensalNext]_vars

PositiveSum(q) == SeqSum(SelectSeq(q, Positive))

Valores == {-50000, 0, 45500, 100000, 150000}

Returned(x) == [raised |-> FALSE, value |-> x]
ZeroDivisionError == [raised |-> TRUE, value |-> 0]

\* round(n / d, 0), d > 0: the nearest integer
RoundRatio(n, d) == (n \div d) + (IF 2 * (n % d) >= d THEN 1 ELSE 0)

\* round(n / d, 2), d > 0, in thousandths: the nearest hundredth
RoundRatio2(n, d) == 10 * RoundRatio(100 * n, d)

\* round(n / d, 1), d > 0, in thousandths: the nearest tenth
RoundRatio1(n, d) == 100 * RoundRatio(10 * n, d)

\* calcular_performance_ratio with `energia_teorica < 0` as its guard
CalcularPerformanceRatioStrict(energia_real, energia_teorica) ==
    IF energia_teorica < 0 THEN Returned(0)
    ELSE IF energia_teorica = 0 THEN ZeroDivisionError
    ELSE Returned(RoundRatio2(energia_real * 100, energia_teorica))

\* calcular_performance_ratio
CalcularPerformanceRatio(energia_real, energia_teorica) ==
    IF energia_teorica <= 0 THEN Returned(0)
    ELSE Returned(RoundRatio2(energia_real * 100, energia_teorica))

\* calcular_horas_sol_pico
CalcularHorasSolPico(kwh_gerado, potencia_kwp) ==
    IF potencia_kwp <= 0 THEN Returned(0)
    ELSE Returned(RoundRatio2(kwh_gerado, potencia_kwp))

\* calcular_payback_simples
CalcularPaybackSimples(custo_sistema, economia_mensal) ==
    IF economia_mensal <= 0
    THEN Returned([payback_meses |-> 0, payback_anos |-> 0,
                   custo_sistema |-> Round2(custo_sistema),
                   economia_mensal |-> Round2(economia_mensal)])
    ELSE Returned([payback_meses |-> RoundRatio1(custo_sistema, economia_mensal),
                   payback_anos |-> RoundRatio2(custo_sistema, economia_mensal * 12),
                   custo_sistema |-> Round2(custo_sistema),
                   economia_mensal |-> Round2(economia_mensal)])

\* calcular_comparativo_mensal
CalcularComparativoMensal(mes_atual, mes_anterior) ==
    IF mes_anterior <= 0
    THEN Returned([variacao_kwh |-> Round2(mes_atual),
                   variacao_percentual |-> IF mes_atual > 0 THEN 100000 ELSE 0,
                   mes_atual |-> Round2(mes_atual),
                   mes_anterior |-> Round2(mes_anterior)])
    ELSE LET variacao_kwh == mes_atual - mes_anterior IN
         Returned([variacao_kwh |-> Round2(variacao_kwh),
                   variacao_percentual |->
                       RoundRatio2(variacao_kwh * 100, mes_anterior),
                   mes_atual |-> Round2(mes_atual),
                   mes_anterior |-> Round2(mes_anterior)])

Funcoes == {"calcular_performance_ratio", "calcular_horas_sol_pico",
            "calcular_payback_simples", "calcular_comparativo_mensal"}

CalcInit ==
    /\ \E f \in Funcoes, a \in Valores, b \in Valores :
        calc = [pc |-> "called", fn |-> f, a |-> a, b |-> b, ret |-> None]
    /\ inv = Idle /\ mensal = Idle /\ extr = Idle /\ sem = Idle /\ lote = Idle
    /\ MaisIdle
    /\ CacheIdle /\ KeyIdle /\ ApiIdle

Calcular ==
    /\ calc # Idle /\ calc.pc = "called"
    /\ calc' = [calc EXCEPT
                  !.pc = "returned",
                  !.ret = CASE calc.fn = "calcular_performance_ratio" ->
                                   CalcularPerformanceRatio(calc.a, calc.b)
                            [] calc.fn = "calcular_horas_sol_pico" ->
                                   CalcularHorasSolPico(calc.a, calc.b)
                            [] calc.fn = "calcular_payback_simples" ->
                                   CalcularPaybackSimples(calc.a, calc.b)
                            [] calc.fn = "calcular_comparativo_mensal" ->
                                   CalcularComparativoMensal(calc.a, calc.b)]
    /\ UNCHANGED notCalc

CalcNext == Calcular

SpecCalculos == CalcInit /\ [][CalcNext]_vars

\* the function has returned or raised
Chamada(f) == calc # Idle /\ calc.pc = "returned" /\ calc.fn = f

(***************************************************************************)
(* C26: calcular_comparativo_mensal(current, previous) returns             *)
(* delta = current - previous for all inputs, percent = delta / previous   *)
(* * 100 when previous > 0, and percent = 100 if current > 0 else 0 when   *)
(* previous <= 0 (values rounded to 2 decimals).                           *)
(***************************************************************************)
C26_ComparativoMensal ==
    Chamada("calcular_comparativo_mensal")
    => /\ ~calc.ret.raised
       /\ calc.ret.value.variacao_kwh = Round2(calc.a - calc.b)
       /\ calc.ret.value.variacao_percentual =
             IF calc.b > 0 THEN RoundRatio2((calc.a - calc.b) * 100, calc.b)
             ELSE IF calc.a > 0 THEN 100000 ELSE 0

(***************************************************************************)
(* C27: calcular_performance_ratio, calcular_horas_sol_pico and            *)
(* calcular_payback_simples do not raise, and return 0.0 (0 months and 0   *)
(* years for the payback) when their denominator is zero or negative.      *)
(***************************************************************************)
C27_ZeroForNonPositiveDenominator ==
    /\ \A f \in {"calcular_performance_ratio", "calcular_horas_sol_pico"} :
          Chamada(f) => /\ ~calc.ret.raised
                        /\ calc.b <= 0 => calc.ret.value = 0
    /\ Chamada("calcular_payback_simples")
          => /\ ~calc.ret.raised
             /\ calc.b <= 0 => /\ calc.ret.value.payback_meses = 0
                                /\ calc.ret.value.payback_anos = 0

\* a performance ratio asked for a theoretical energy of zero
C27_Witness ==
    /\ Chamada("calcular_performance_ratio")
    /\ calc.a > 0 /\ calc.b = 0
    /\ calc.ret = Returned(0)

(***************************************************************************)
(* ExtratorDados.extrair_dados_mensais and comparar_com_mes_anterior: the  *)
(* sub-fetches of one station and month, the fallback of the monthly       *)
(* value, and the comparison with the month before.                        *)
(***************************************************************************)
PartialDays == 2

\* the months reported on: a January and a 30-day month
Periodos == {[mes |-> 1, ano |-> 2024], [mes |-> 11, ano |-> 2023]}

IsLeap(ano) == (ano % 4 = 0 /\ ano % 100 # 0) \/ ano % 400 = 0

\* calendar.monthrange(ano, mes)[1]
Monthrange(ano, mes) ==
    IF mes = 2 THEN (IF IsLeap(ano) THEN 29 ELSE 28)
    ELSE IF mes \in {4, 6, 9, 11} THEN 30 ELSE 31

\* utils.obter_mes_anterior, which steps to the month itself
ObterMesAnteriorSame(mes, ano) == [mes |-> mes, ano |-> ano]

\* utils.obter_mes_anterior
ObterMesAnterior(mes, ano) ==
    IF mes = 1 THEN [mes |-> 12, ano |-> ano - 1] ELSE [mes |-> mes - 1, ano |-> ano]

\* bool(d) of a dict
Truthy(d) == DOMAIN d # {}

\* what getKpiStationMonth may answer for the station: nothing, an item with
\* no dataItemMap, with an empty one, with production_power, without it
KpiMensalResponses ==
    {EmptyMap,
     [stationCode |-> 1],
     [stationCode |-> 1, dataItemMap |-> EmptyMap],
     [stationCode |-> 1, dataItemMap |-> [production_power |-> 5000]],
     [stationCode |-> 1, dataItemMap |-> [production_power |-> 0]],
     [stationCode |-> 1, dataItemMap |-> [total_power |-> 9000]]}

\* what getStationRealKpi may answer
RealtimeResponses ==
    {EmptyMap,
     [stationCode |-> 1],
     [stationCode |-> 1, dataItemMap |-> [month_power |-> 3000, day_power |-> 100]],
     [stationCode |-> 1, dataItemMap |-> [day_power |-> 100]]}

\* the daily readings of a month as _obter_dados_diarios_mes builds them from
\* the items of the API: n days from day 1, sorted by day
LeiturasDoMes(n, padrao) ==
    [i \in 1..n |->
        [dia |-> i,
         kwh |-> CASE padrao = "todos" -> 1004
                   [] padrao = "zeros" -> 0
                   [] padrao = "misto" -> IF i = 1 THEN 0 ELSE 2000]]

Padroes == {"todos", "zeros", "misto"}

\* no item, the first days of the month only, or one item a day
LeiturasPossiveis(mes, ano) ==
    {<<>>} \cup {LeiturasDoMes(n, p) : n \in {PartialDays, Monthrange(ano, mes)},
                                       p \in Padroes}

Dispositivos == <<[id |-> 1, devTypeId |-> 1], [id |-> 2, devTypeId |-> 17]>>
Alarmes == <<[alarmId |-> 1, lev |-> 1]>>

\* one sub-fetch as the server decides it: its outcome and, when it
\* succeeds, its answer
Fetches(values, vazio) ==
    {[outcome |-> "ok", value |-> v] : v \in values}
    \cup {[outcome |-> o, value |-> vazio] : o \in FetchOutcomes \ {"ok"}}

Estacoes == <<[stationCode |-> 1, capacity |-> 5]>>
KpiItem == [total_cap |-> 10000, day_cap |-> 2000, active_power |-> 3000,
            temperature |-> 40000, run_state |-> 1]

\* the answers the server may give to each sub-fetch of the extraction of
\* the month reported on
Respostas(mes, ano) ==
    [estacoes |-> Fetches({Estacoes}, <<>>),
     kpi |-> Fetches(KpiMensalResponses, EmptyMap),
     realtime |-> Fetches(RealtimeResponses, EmptyMap),
     diarios |-> Fetches(LeiturasPossiveis(mes, ano), <<>>),
     alarmes |-> Fetches({Alarmes}, <<>>),
     dispositivos |-> Fetches({Dispositivos}, <<>>),
     inversores |-> Fetches({KpiItem}, EmptyMap)]

\* the answer of a sub-fetch that is not made
SemResposta == [outcome |-> "ok", value |-> <<>>]

\* the answers of the server to the sub-fetches of the month before
RespostasAnterior(mes, ano) ==
    [estacoes : {[outcome |-> "ok", value |-> Estacoes]},
     kpi : {[outcome |-> "ok",
             value |-> [stationCode |-> 1, dataItemMap |-> [production_power |-> 5000]]],
            [outcome |-> "request_failed", value |-> EmptyMap],
            [outcome |-> "login_raised", value |-> EmptyMap]},
     realtime : {[outcome |-> "request_failed", value |-> EmptyMap]},
     diarios : {[outcome |-> "ok", value |-> LeiturasDoMes(Monthrange(ano, mes), "todos")],
                [outcome |-> "request_failed", value |-> <<>>]},
     alarmes : {[outcome |-> "ok", value |-> Alarmes]},
     dispositivos : Fetches({Dispositivos}, <<>>) \ {[outcome |-> "login_raised", value |-> <<>>]},
     inversores : {[outcome |-> "ok", value |-> KpiItem]}]

\* a domain operation of FusionSolarAPI as its caller sees it: the login of
\* _ensure_authenticated is outside the try of a soft operation, the request
\* inside it
ApiFetch(op, f, vazio) ==
    CASE f.outcome = "ok" -> [raised |-> FALSE, value |-> f.value]
      [] f.outcome = "login_raised" -> [raised |-> TRUE, value |-> vazio]
      [] f.outcome = "request_failed" ->
            [raised |-> op \notin SoftOps, value |-> vazio]

\* `not kpi_mensal or not kpi_mensal.get('dataItemMap')`, taking any answer
\* that is not {} as usable
KpiVazioOnlyWhenEmpty(kpi) == ~Truthy(kpi)

\* `not kpi_mensal or not kpi_mensal.get('dataItemMap')`
KpiVazio(kpi) == ~Truthy(kpi) \/ ~Truthy(Get(kpi, "dataItemMap", EmptyMap))

\* kpi_mensal adapted from the realtime snapshot
KpiDeRealtime(dados_realtime) ==
    LET m == Get(dados_realtime, "dataItemMap", EmptyMap) IN
    [stationCode |-> 1,
     dataItemMap |-> [production_power |-> Get(m, "month_power", 0),
                      total_power |-> Get(m, "total_power", 0),
                      day_power |-> Get(m, "day_power", 0),
                      total_income |-> Get(m, "total_income", 0)],
     _source |-> "realtime"]

\* the zeroed kpi_mensal
KpiZerado ==
    [stationCode |-> 1,
     dataItemMap |-> [production_power |-> 0, total_power |-> 0,
                      day_power |-> 0, total_income |-> 0],
     _source |-> "fallback_empty"]

\* _obter_dados_diarios_mes: [] unless asked for; any exception gives []
ObterDadosDiariosMes(f, buscar_diarios) ==
    IF ~buscar_diarios THEN <<>>
    ELSE LET r == ApiFetch("get_station_month_daily_kpi", f, <<>>) IN
         IF r.raised THEN <<>> ELSE r.value

\* _obter_alarmes_mes: any exception gives []
ObterAlarmesMes(f) ==
    LET r == ApiFetch("get_alarm_list", f, <<>>) IN
    IF r.raised THEN <<>> ELSE r.value

HasId(d) == DevId(d) # <<>>

\* _obter_kpis_inversores when every inverter of the station gets the same
\* answer: an exception skips the inverter
ObterKpisInversores(dispositivos, f) ==
    LET inversores == SelectSeq(SelectSeq(dispositivos, IsInversor), HasId)
        r == GetDeviceRealtimeKpi(f.outcome, f.value)
    IN IF r.raised THEN <<>>
       ELSE [j \in DOMAIN inversores |-> InversorData(inversores[j], r.kpi)]

\* the report of _processar_dados_mensais, as far as the properties below
\* read it
ProcessarDadosMensais(kpi_mensal, dados_diarios, alarmes, dispositivos, inversores_kpi, mes, ano) ==
    LET total_kwh_mensal ==
            Get(Get(kpi_mensal, "dataItemMap", EmptyMap), "production_power", 0)
        dias_total == IF dados_diarios # <<>> THEN Len(dados_diarios)
                      ELSE Monthrange(ano, mes)
    IN [periodo |-> [mes |-> mes, ano |-> ano, dias_no_mes |-> dias_total],
        geracao |-> Geracao(dados_diarios, total_kwh_mensal),
        sistema |-> [num_inversores |->
                         Len(SelectSeq(dispositivos,
                                       LAMBDA d : Get(d, "devTypeId", 0) = 1)),
                     inversores_resumo |-> ResumoInversores(inversores_kpi),
                     alarmes |-> Len(alarmes)],
        dados_brutos |-> [kpi_mensal |-> kpi_mensal],
        comparativo |-> None]

\* an extraction that an exception ended
Abortada(calls) == [raised |-> TRUE, calls |-> calls, report |-> None]

\* extrair_dados_mensais: the sub-fetches in the order of the code, each
\* with the outcome it had, and the report or the exception that ended it
ExtrairDadosMensais(r, mes, ano, buscar_diarios, cache_estacoes) ==
    LET c1 == IF cache_estacoes THEN <<>>
              ELSE <<[op |-> "get_station_list", outcome |-> r.estacoes.outcome]>>
        estacoes == ApiFetch("get_station_list", r.estacoes, <<>>)
        c2 == Append(c1, [op |-> "get_station_month_kpi", outcome |-> r.kpi.outcome])
        kpi == ApiFetch("get_station_month_kpi", r.kpi, EmptyMap)
        vazio == KpiVazio(kpi.value)
        c3 == IF vazio
              THEN Append(c2, [op |-> "get_station_realtime_data",
                               outcome |-> r.realtime.outcome])
              ELSE c2
        realtime == ApiFetch("get_station_realtime_data", r.realtime, EmptyMap)
        kpi_mensal ==
            IF ~vazio THEN kpi.value
            ELSE IF Truthy(realtime.value)
                    /\ Truthy(Get(realtime.value, "dataItemMap", EmptyMap))
                 THEN KpiDeRealtime(realtime.value)
                 ELSE KpiZerado
        c4 == IF buscar_diarios
              THEN Append(c3, [op |-> "get_station_month_daily_kpi",
                               outcome |-> r.diarios.outcome])
              ELSE c3
        dados_diarios == ObterDadosDiariosMes(r.diarios, buscar_diarios)
        c5 == Append(c4, [op |-> "get_alarm_list", outcome |-> r.alarmes.outcome])
        alarmes == ObterAlarmesMes(r.alarmes)
        c6 == Append(c5, [op |-> "get_device_list", outcome |-> r.dispositivos.outcome])
        dispositivos == ApiFetch("get_device_list", r.dispositivos, <<>>)
        c7 == Append(c6, [op |-> "get_device_realtime_kpi",
                          outcome |-> r.inversores.outcome])
        inversores_kpi == ObterKpisInversores(dispositivos.value, r.inversores)
    IN IF ~cache_estacoes /\ estacoes.raised THEN Abortada(c1)
       ELSE IF kpi.raised THEN Abortada(c2)
       ELSE IF vazio /\ realtime.raised THEN Abortada(c3)
       ELSE IF dispositivos.raised THEN Abortada(c6)
       ELSE [raised |-> FALSE, calls |-> c7,
             report |-> Some(ProcessarDadosMensais(kpi_mensal, dados_diarios, alarmes,
                                      dispositivos.value, inversores_kpi, mes, ano))]

\* dados_atual['comparativo'] of comparar_com_mes_anterior
Comparativo(kwh_atual, kwh_anterior, mes_ant, ano_ant) ==
    LET variacao_kwh == kwh_atual - kwh_anterior
        variacao_pct == IF kwh_anterior > 0
                        THEN RoundRatio2(variacao_kwh * 100, kwh_anterior)
                        ELSE 0
    IN [mes_anterior |-> [mes |-> mes_ant, ano |-> ano_ant],
        kwh_mes_anterior |-> Round2(kwh_anterior),
        variacao_kwh |-> Round2(variacao_kwh),
        variacao_percentual |-> variacao_pct]

ExtrInit ==
    /\ \E p \in Periodos, buscar_diarios \in BOOLEAN, cache_estacoes \in BOOLEAN :
        extr = [pc |-> "atual", mes |-> p.mes, ano |-> p.ano,
                buscar_diarios |-> buscar_diarios,
                cache_estacoes |-> cache_estacoes, respostas |-> None,
                atual |-> None, anterior |-> None, ret |-> None]
    /\ inv = Idle /\ mensal = Idle /\ calc = Idle /\ sem = Idle /\ lote = Idle
    /\ MaisIdle
    /\ CacheIdle /\ KeyIdle /\ ApiIdle

\* dados_atual = self.extrair_dados_mensais(...): outside the try, so that an
\* exception leaves comparar_com_mes_anterior
ExtrairAtual ==
    /\ extr # Idle /\ extr.pc = "atual"
    /\ LET R == Respostas(extr.mes, extr.ano)
           Feito(op, f) == ~ApiFetch(op, f, <<>>).raised
       IN
       \* the answers, varied for the sub-fetches that are made only
       \E r1 \in IF extr.cache_estacoes THEN {SemResposta} ELSE R.estacoes :
       \E r2 \in IF Feito("get_station_list", r1) THEN R.kpi ELSE {SemResposta} :
       \E r3 \in IF Feito("get_station_list", r1) /\ Feito("get_station_month_kpi", r2)
                     /\ KpiVazio(ApiFetch("get_station_month_kpi", r2, EmptyMap).value)
                  THEN R.realtime ELSE {SemResposta} :
       \E r4 \in IF extr.buscar_diarios /\ Feito("get_station_list", r1)
                     /\ Feito("get_station_month_kpi", r2)
                     /\ Feito("get_station_realtime_data", r3)
                  THEN R.diarios ELSE {SemResposta} :
       \E r5 \in IF Feito("get_station_list", r1) /\ Feito("get_station_month_kpi", r2)
                     /\ Feito("get_station_realtime_data", r3)
                  THEN R.alarmes ELSE {SemResposta} :
       \E r6 \in IF Feito("get_station_list", r1) /\ Feito("get_station_month_kpi", r2)
                     /\ Feito("get_station_realtime_data", r3)
                  THEN R.dispositivos ELSE {SemResposta} :
       \E r7 \in IF Feito("get_station_list", r1) /\ Feito("get_station_month_kpi", r2)
                     /\ Feito("get_station_realtime_data", r3)
                     /\ Feito("get_device_list", r6)
                  THEN R.inversores ELSE {SemResposta} :
        LET r == [estacoes |-> r1, kpi |-> r2, realtime |-> r3, diarios |-> r4,
                  alarmes |-> r5, dispositivos |-> r6, inversores |-> r7]
            e == ExtrairDadosMensais(r, extr.mes, extr.ano, extr.buscar_diarios,
                                     extr.cache_estacoes)
        IN extr' = [extr EXCEPT
                      !.pc = IF e.raised THEN "raised" ELSE "anterior",
                      !.cache_estacoes = @ \/ e.calls[1] = [op |-> "get_station_list", outcome |-> "ok"],
                      !.respostas = Some(r),
                      !.atual = Some(e)]
    /\ UNCHANGED notExtr

\* the sub-fetches of an extraction that did not answer
Falhados(calls) ==
    {calls[j].op : j \in {k \in DOMAIN calls : calls[k].outcome # "ok"}}

\* what is kept of the extraction of the month before
Anterior(e, mes_ant, ano_ant) ==
    [mes |-> mes_ant, ano |-> ano_ant,
     raised |-> e.raised, failed |-> Falhados(e.calls),
     pedidos |-> {e.calls[j].op : j \in DOMAIN e.calls},
     total_kwh |-> IF e.raised THEN None ELSE Some(e.report.v.geracao.total_kwh)]

\* the try block of comparar_com_mes_anterior, from the two extractions:
\* any exception gives comparativo = None
ComComparativo(dados_atual, e, mes_ant, ano_ant) ==
    [dados_atual EXCEPT
       !.comparativo =
           IF e.raised THEN None
           ELSE Some(Comparativo(dados_atual.geracao.total_kwh,
                                 e.report.v.geracao.total_kwh, mes_ant, ano_ant))]

\* the month before, always with its daily readings, and the comparison
ExtrairAnterior ==
    /\ extr # Idle /\ extr.pc = "anterior"
    /\ \E r \in RespostasAnterior(ObterMesAnterior(extr.mes, extr.ano).mes,
                                  ObterMesAnterior(extr.mes, extr.ano).ano) :
        extr' = [extr EXCEPT
                   !.pc = "done",
                   !.anterior =
                       Some(Anterior(
                           ExtrairDadosMensais(r,
                               ObterMesAnterior(extr.mes, extr.ano).mes,
                               ObterMesAnterior(extr.mes, extr.ano).ano,
                               TRUE, extr.cache_estacoes),
                           ObterMesAnterior(extr.mes, extr.ano).mes,
                           ObterMesAnterior(extr.mes, extr.ano).ano)),
                   !.ret =
                       Some(ComComparativo(
                           extr.atual.v.report.v,
                           ExtrairDadosMensais(r,
                               ObterMesAnterior(extr.mes, extr.ano).mes,
                               ObterMesAnterior(extr.mes, extr.ano).ano,
                               TRUE, extr.cache_estacoes),
                           ObterMesAnterior(extr.mes, extr.ano).mes,
                           ObterMesAnterior(extr.mes, extr.ano).ano))]
    /\ UNCHANGED notExtr

ExtrNext == ExtrairAtual \/ ExtrairAnterior

SpecExtrair == ExtrInit /\ [][ExtrNext]_vars
\* the extraction of the month reported on has ended
Extraido == extr # Idle /\ extr.atual # None

\* the extraction of the month reported on made this sub-fetch
Pedido(op) == \E j \in DOMAIN extr.atual.v.calls : extr.atual.v.calls[j].op = op

\* what the extractor received from get_station_month_kpi and from
\* get_station_realtime_data
KpiRecebido == ApiFetch("get_station_month_kpi", extr.respostas.v.kpi, EmptyMap).value
RealtimeRecebido ==
    ApiFetch("get_station_realtime_data", extr.respostas.v.realtime, EmptyMap).value

\* the monthly value and the origin mark of the report
ValorMensal ==
    Get(Get(extr.atual.v.report.v.dados_brutos.kpi_mensal, "dataItemMap", EmptyMap),
        "production_power", 0)
Origem == Get(extr.atual.v.report.v.dados_brutos.kpi_mensal, "_source", "none")

\* a response with nothing to read: {} or no dataItemMap or an empty one
SemDados(d) ==
    \/ DOMAIN d = {}
    \/ "dataItemMap" \notin DOMAIN d
    \/ DOMAIN d["dataItemMap"] = {}

(***************************************************************************)
(* C21 as claimed: the monthly value of the report is that of the monthly  *)
(* KPI when its response is not {}, else month_power of the realtime       *)
(* snapshot when the snapshot is not {}, else zero; the snapshot is        *)
(* requested only when the monthly KPI response is {}, and the zeroed      *)
(* values are used only when the snapshot is {} too.                       *)
(***************************************************************************)
C21_FallbackWhenResponseEmpty ==
    (Extraido /\ Pedido("get_station_month_kpi"))
    => /\ Pedido("get_station_realtime_data") => KpiRecebido = EmptyMap
       /\ ~extr.atual.v.raised =>
            /\ Origem = "fallback_empty" => RealtimeRecebido = EmptyMap
            /\ ValorMensal =
                  IF KpiRecebido # EmptyMap
                  THEN Get(Get(KpiRecebido, "dataItemMap", EmptyMap),
                           "production_power", 0)
                  ELSE IF RealtimeRecebido # EmptyMap
                       THEN Get(Get(RealtimeRecebido, "dataItemMap", EmptyMap),
                                "month_power", 0)
                       ELSE 0

(***************************************************************************)
(* C21 as amended: the same order, where a response counts as empty when   *)
(* it is {} or carries no dataItemMap or an empty one: the monthly value   *)
(* is production_power of the monthly KPI when its response has a          *)
(* non-empty dataItemMap, else month_power of the realtime snapshot when   *)
(* the snapshot has a non-empty dataItemMap, else zero (a field that is    *)
(* missing reads as 0); the snapshot is requested exactly when the monthly *)
(* KPI response is empty in this sense, and the zeroed values are used     *)
(* exactly when the snapshot is empty in this sense too.                   *)
(***************************************************************************)
C21_FallbackWhenNoDataItemMap ==
    (Extraido /\ Pedido("get_station_month_kpi")
        /\ ~ApiFetch("get_station_month_kpi", extr.respostas.v.kpi, EmptyMap).raised)
    => /\ Pedido("get_station_realtime_data") <=> SemDados(KpiRecebido)
       /\ ~extr.atual.v.raised =>
            /\ Origem = "fallback_empty"
                  <=> (SemDados(KpiRecebido) /\ SemDados(RealtimeRecebido))
            /\ Origem = "realtime"
                  <=> (SemDados(KpiRecebido) /\ ~SemDados(RealtimeRecebido))
            /\ ValorMensal =
                  IF ~SemDados(KpiRecebido)
                  THEN Get(KpiRecebido["dataItemMap"], "production_power", 0)
                  ELSE IF ~SemDados(RealtimeRecebido)
                       THEN Get(RealtimeRecebido["dataItemMap"], "month_power", 0)
                       ELSE 0

\* a monthly KPI response that is not {} but has no dataItemMap, and the
\* month_power of the snapshot taken in its place
C21_Witness ==
    /\ Extraido /\ ~extr.atual.v.raised
    /\ KpiRecebido = [stationCode |-> 1]
    /\ Pedido("get_station_realtime_data")
    /\ Origem = "realtime" /\ ValorMensal = 3000

\* the daily readings the extraction of the month reported on obtained
DadosDiarios == ObterDadosDiariosMes(extr.respostas.v.diarios, extr.buscar_diarios)

(***************************************************************************)
(* C22: the origin mark of a report names the source its total_kwh came    *)
(* from: none (measured) when the total is the daily sum or the monthly    *)
(* KPI, the realtime mark when it is month_power of the snapshot, the      *)
(* empty mark when it is the zero default.                                 *)
(***************************************************************************)
C22_ProvenanceNamesSource ==
    (Extraido /\ ~extr.atual.v.raised)
    => LET tag == CASE Origem = "none" -> "measured"
                    [] Origem = "realtime" -> "realtime_fallback"
                    [] Origem = "fallback_empty" -> "empty_fallback"
           used == IF PositiveSum(Column(DadosDiarios, "kwh")) > 0 THEN "measured"
                   ELSE IF ~SemDados(KpiRecebido) THEN "measured"
                   ELSE IF ~SemDados(RealtimeRecebido) THEN "realtime_fallback"
                   ELSE "empty_fallback"
       IN tag = used

(***************************************************************************)
(* C23: in a report made with daily readings, dias_com_geracao +           *)
(* dias_sem_geracao is the number of days of the month reported on; in a   *)
(* report made without daily readings both are None.                       *)
(***************************************************************************)
C23_DaysSumToMonth ==
    (Extraido /\ ~extr.atual.v.raised)
    => LET g == extr.atual.v.report.v.geracao IN
       IF DadosDiarios # <<>>
       THEN /\ g.dias_com_geracao # None /\ g.dias_sem_geracao # None
            /\ g.dias_com_geracao.v + g.dias_sem_geracao.v
                  = Monthrange(extr.ano, extr.mes)
       ELSE g.dias_com_geracao = None /\ g.dias_sem_geracao = None

\* comparar_com_mes_anterior has returned
Comparado == extr # Idle /\ extr.pc = "done"

(***************************************************************************)
(* C24: comparar_com_mes_anterior extracts the month just before the one   *)
(* reported on (December of the year before for a January) and asks for    *)
(* its daily readings whatever the caller's buscar_diarios; when that      *)
(* extraction raises, the call returns the report of the month reported on *)
(* with comparativo = None, and otherwise with a comparativo.              *)
(***************************************************************************)
C24_PreviousMonthWithDailyOrNull ==
    Comparado
    => /\ extr.anterior.v.mes = (IF extr.mes = 1 THEN 12 ELSE extr.mes - 1)
       /\ extr.anterior.v.ano = (IF extr.mes = 1 THEN extr.ano - 1 ELSE extr.ano)
       /\ ~extr.anterior.v.raised
            => "get_station_month_daily_kpi" \in extr.anterior.v.pedidos
       /\ extr.ret # None
       /\ extr.ret.v.periodo = extr.atual.v.report.v.periodo
       /\ extr.ret.v.geracao = extr.atual.v.report.v.geracao
       /\ extr.anterior.v.raised <=> extr.ret.v.comparativo = None

\* a January reported on without daily readings, and a December whose
\* extraction raises
C24_Witness ==
    /\ Comparado /\ extr.mes = 1 /\ ~extr.buscar_diarios
    /\ extr.anterior.v.mes = 12 /\ extr.anterior.v.ano = extr.ano - 1
    /\ extr.anterior.v.raised
    /\ extr.ret.v.comparativo = None

(***************************************************************************)
(* C25: the comparativo of the extractor holds the variacao_kwh and the    *)
(* variacao_percentual that calcular_comparativo_mensal returns for the    *)
(* same two totals, a total of zero for the month before included.         *)
(***************************************************************************)
C25_ComparativoAsCalculator ==
    (Comparado /\ extr.ret.v.comparativo # None)
    => LET c == extr.ret.v.comparativo.v
           m == CalcularComparativoMensal(extr.atual.v.report.v.geracao.total_kwh,
                                          extr.anterior.v.total_kwh.v).value
       IN /\ c.variacao_kwh = m.variacao_kwh
          /\ c.variacao_percentual = m.variacao_percentual

(***************************************************************************)
(* C30: in the extraction of a month only a failed station list or a       *)
(* failed login ends extrair_dados_mensais with an exception: when the     *)
(* monthly KPI, the realtime snapshot, the daily data, the device list,    *)
(* the device KPIs or the alarms fail otherwise, a report is returned; and *)
(* an extraction of the month before that fails for any such reason        *)
(* leaves comparar_com_mes_anterior returning its report.                  *)
(***************************************************************************)
C30_OnlyStationListAndAuthAbort ==
    /\ (Extraido /\ extr.atual.v.raised)
       => \E j \in DOMAIN extr.atual.v.calls :
             \/ extr.atual.v.calls[j].outcome = "login_raised"
             \/ extr.atual.v.calls[j] =
                   [op |-> "get_station_list", outcome |-> "request_failed"]
    /\ Comparado => extr.ret # None

(***************************************************************************)
(* ExtratorDados._calcular_semanas: the weekly buckets of the daily        *)
(* readings of a month.                                                    *)
(***************************************************************************)
\* months of 28, 29, 30 and 31 days
PeriodosSemanas == {[mes |-> 2, ano |-> 2023], [mes |-> 2, ano |-> 2024],
                    [mes |-> 11, ano |-> 2023], [mes |-> 1, ano |-> 2024]}

\* the readings of the first n days of the month, for every n
LeiturasAte(mes, ano) ==
    {LeiturasDoMes(n, p) : n \in 0..Monthrange(ano, mes), p \in Padroes}

\* semanas_def with a last bucket that always ends on day 30
SemanasDefAte30(dias_no_mes) ==
    <<[inicio |-> 1, fim |-> 7], [inicio |-> 8, fim |-> 14],
      [inicio |-> 15, fim |-> 21], [inicio |-> 22, fim |-> 28],
      [inicio |-> 29, fim |-> 30]>>

\* semanas_def
SemanasDef(dias_no_mes) ==
    <<[inicio |-> 1, fim |-> 7], [inicio |-> 8, fim |-> 14],
      [inicio |-> 15, fim |-> 21], [inicio |-> 22, fim |-> 28],
      [inicio |-> 29, fim |-> dias_no_mes]>>

\* the turns i, i+1, ... of `for i, (inicio, fim) in enumerate(semanas_def, 1)`
RECURSIVE SemanasDesde(_, _, _)
SemanasDesde(i, geracao_diaria, dias_no_mes) ==
    IF i > Len(SemanasDef(dias_no_mes)) THEN <<>>
    ELSE LET inicio == SemanasDef(dias_no_mes)[i].inicio
             fim == Min(SemanasDef(dias_no_mes)[i].fim, dias_no_mes)
             dias_semana == SelectSeq(geracao_diaria,
                                LAMBDA d : inicio <= d.dia /\ d.dia <= fim)
         IN IF inicio > dias_no_mes THEN <<>>
            ELSE (IF dias_semana # <<>>
                  THEN <<[numero |-> i,
                          periodo |-> [inicio |-> inicio, fim |-> fim],
                          dias |-> Len(dias_semana),
                          geracao_kwh |-> Round2(SeqSum(Column(dias_semana, "kwh")))]>>
                  ELSE <<>>)
                 \o SemanasDesde(i + 1, geracao_diaria, dias_no_mes)

\* _calcular_semanas
CalcularSemanas(geracao_diaria, mes, ano) ==
    IF geracao_diaria = <<>> THEN <<>>
    ELSE SemanasDesde(1, geracao_diaria, Monthrange(ano, mes))

SemInit ==
    /\ \E p \in PeriodosSemanas :
        \E g \in LeiturasAte(p.mes, p.ano) :
            sem = [pc |-> "start", mes |-> p.mes, ano |-> p.ano,
                   geracao_diaria |-> g, semanas |-> <<>>]
    /\ inv = Idle /\ mensal = Idle /\ extr = Idle /\ calc = Idle /\ lote = Idle
    /\ MaisIdle
    /\ CacheIdle /\ KeyIdle /\ ApiIdle

Semanas ==
    /\ sem # Idle /\ sem.pc = "start"
    /\ sem' = [sem EXCEPT
                 !.pc = "done",
                 !.semanas = CalcularSemanas(sem.geracao_diaria, sem.mes, sem.ano)]
    /\ UNCHANGED notSem

SemNext == Semanas

SpecSemanas == SemInit /\ [][SemNext]_vars

(***************************************************************************)
(* C28: for a month with one daily reading per calendar day, every day     *)
(* falls in exactly one bucket, the buckets are among days 1-7, 8-14,      *)
(* 15-21, 22-28 and 29-end, and their day counts sum to the number of days *)
(* of the month; a 30-day month gives exactly 5 buckets, the last one      *)
(* covering days 29-30.                                                    *)
(***************************************************************************)
C28_WeeklyBucketsCoverMonth ==
    (sem # Idle /\ sem.pc = "done"
        /\ Len(sem.geracao_diaria) = Monthrange(sem.ano, sem.mes))
    => LET n == Monthrange(sem.ano, sem.mes)
           w == sem.semanas
       IN /\ \A d \in 1..n :
                Cardinality({k \in DOMAIN w : w[k].periodo.inicio <= d
                                                /\ d <= w[k].periodo.fim}) = 1
          /\ \A k \in DOMAIN w :
                /\ w[k].periodo \in {[inicio |-> 1, fim |-> 7], [inicio |-> 8, fim |-> 14],
                                      [inicio |-> 15, fim |-> 21],
                                      [inicio |-> 22, fim |-> 28],
                                      [inicio |-> 29, fim |-> n]}
                /\ w[k].dias = w[k].periodo.fim - w[k].periodo.inicio + 1
          /\ SeqSum(Column(w, "dias")) = n
          /\ n = 30 => /\ Len(w) = 5
                        /\ w[5].periodo = [inicio |-> 29, fim |-> 30]
                        /\ w[5].dias = 2

\* a November with its 30 readings
C28_Witness ==
    /\ sem # Idle /\ sem.pc = "done" /\ sem.mes = 11
    /\ Len(sem.geracao_diaria) = 30
    /\ Len(sem.semanas) = 5 /\ sem.semanas[5].dias = 2

(***************************************************************************)
(* main(): the loop over the clients of clientes.yaml, after the login.    *)
(***************************************************************************)
MaxClientes == 3

\* an entry of clientes.yaml: station_code and nome, or station_code alone
ClientesAt(i) == {[station_code |-> i, nome |-> i], [station_code |-> i]}

ListasDeClientes ==
    UNION {{c \in [1..n -> UNION {ClientesAt(i) : i \in 1..n}] :
               \A i \in 1..n : c[i] \in ClientesAt(i)} : n \in 1..MaxClientes}

\* how the body of the try ends for one client
Desfechos == {"ok", "extracao_raised", "json_raised", "pdf_raised"}

LoteInit ==
    /\ \E c \in ListasDeClientes, salvar_json \in BOOLEAN :
        lote = [pc |-> "loop", clientes |-> c, salvar_json |-> salvar_json,
                i |-> 1, sucesso |-> 0, falhas |-> 0,
                iniciados |-> <<>>, desfechos |-> <<>>,
                pdfs |-> {}, jsons |-> {}, logout |-> FALSE, exit |-> None]
    /\ inv = Idle /\ mensal = Idle /\ extr = Idle /\ calc = Idle /\ sem = Idle
    /\ MaisIdle
    /\ CacheIdle /\ KeyIdle /\ ApiIdle

\* one turn of `for i, cliente in enumerate(clientes_processar, 1)`:
\* cliente['station_code'] and cliente['nome'] are read before the try, and a
\* KeyError there reaches `except Exception` of main, which exits with 1
ProcessarCliente ==
    /\ lote # Idle /\ lote.pc = "loop" /\ lote.i <= Len(lote.clientes)
    /\ LET cliente == lote.clientes[lote.i] IN
       IF "station_code" \notin DOMAIN cliente \/ "nome" \notin DOMAIN cliente
       THEN lote' = [lote EXCEPT !.pc = "exited", !.exit = Some(1)]
       ELSE \E d \in Desfechos :
            /\ d = "json_raised" => lote.salvar_json
            /\ lote' = [lote EXCEPT
                  !.i = @ + 1,
                  !.iniciados = Append(@, cliente.station_code),
                  !.desfechos = Append(@, d),
                  !.jsons = IF lote.salvar_json /\ d \in {"ok", "pdf_raised"}
                            THEN @ \cup {cliente.station_code} ELSE @,
                  !.pdfs = IF d = "ok" THEN @ \cup {cliente.station_code} ELSE @,
                  !.sucesso = IF d = "ok" THEN @ + 1 ELSE @,
                  !.falhas = IF d = "ok" THEN @ ELSE @ + 1]
    /\ UNCHANGED notLote

\* after the loop: api.logout(), the summary, sys.exit(0 if falhas == 0 else 1)
FimDoLote ==
    /\ lote # Idle /\ lote.pc = "loop" /\ lote.i > Len(lote.clientes)
    /\ lote' = [lote EXCEPT
                  !.pc = "exited", !.logout = TRUE,
                  !.exit = Some(IF lote.falhas = 0 THEN 0 ELSE 1)]
    /\ UNCHANGED notLote

LoteNext == ProcessarCliente \/ FimDoLote

SpecLote == LoteInit /\ [][LoteNext]_vars

(***************************************************************************)
(* C29: a batch run takes every station of the list in order, also after   *)
(* a station has failed: when it ends, every station has been counted      *)
(* once, as a success or as a failure, the report of every station that    *)
(* succeeded exists, and the exit status is 0 exactly when no station      *)
(* failed.                                                                 *)
(***************************************************************************)
C29_BatchCountsEveryStation ==
    (lote # Idle /\ lote.pc = "exited")
    => /\ lote.iniciados = [j \in DOMAIN lote.clientes |-> lote.clientes[j].station_code]
       /\ lote.sucesso + lote.falhas = Len(lote.clientes)
       /\ lote.sucesso = Cardinality({j \in DOMAIN lote.desfechos :
                                          lote.desfechos[j] = "ok"})
       /\ lote.pdfs = {lote.iniciados[j] : j \in {k \in DOMAIN lote.desfechos :
                                                     lote.desfechos[k] = "ok"}}
       /\ lote.exit = Some(IF lote.falhas = 0 THEN 0 ELSE 1)

\* a domain operation is under way or has ended
InCall == api.pc \notin {"idle"} /\ api.op # "logout"

(***************************************************************************)
(* C1: when the token is missing or expired at the start of a domain       *)
(* operation, the operation's request is sent only after a login that      *)
(* succeeded, also when the login of the gate is rejected by the server.   *)
(***************************************************************************)
C1_RequestOnlyAfterLogin ==
    (InCall /\ ~api.startValid /\ api.sends > 0) => api.okBeforeSend

(***************************************************************************)
(* C2: when the first attempt of a call fails with an auth error,          *)
(* _make_request logs in again exactly once and retries exactly once; it   *)
(* never logs in a second time for the same call.                          *)
(***************************************************************************)
C2_OneReloginOneRetry ==
    (InCall /\ api.firstAuth) => (api.relogins <= 1 /\ api.sends <= 2)

(***************************************************************************)
(* C3: a cacheable operation whose (endpoint, params) has an unexpired     *)
(* cache entry returns the cached payload without any network call, in     *)
(* every state of the token.                                               *)
(***************************************************************************)
C3_CachedMeansNoNetwork ==
    (InCall /\ api.startCached # None)
    => /\ api.logins = 0 /\ api.sends = 0
       /\ api.pc = "done" /\ api.outcome = "returned" /\ api.value = api.startCached

(***************************************************************************)
(* C8: a failed station-list or device-list request, and a login made for  *)
(* a domain operation that does not succeed (rejected or transport error), *)
(* make the operation raise instead of returning or continuing.            *)
(***************************************************************************)
C8_HardFailuresPropagate ==
    /\ (InCall /\ api.loginFailed) => (api.pc = "done" /\ api.outcome = "raised")
    /\ (InCall /\ api.op \in {"get_station_list", "get_device_list"}
            /\ api.reqFailed # "none")
       => (api.pc = "done" /\ api.outcome = "raised")

(***************************************************************************)
(* C9: get_station_realtime_data and get_station_month_kpi return an empty *)
(* dict, and do not raise, whenever the KPI request fails (transport error *)
(* after the retries, non-JSON response, failure flag, quota rejection).   *)
(***************************************************************************)
C9_KpiCallsAreSoft ==
    (InCall /\ api.op \in {"get_station_realtime_data", "get_station_month_kpi"}
        /\ api.reqFailed # "none")
    => (api.pc = "done" /\ api.outcome = "returned" /\ api.value = EmptyDict)

\* the monthly KPI request failed at the transport level on every attempt
C9_Witness ==
    /\ InCall /\ api.op = "get_station_month_kpi"
    /\ api.reqFailed = "transport" /\ api.sends = RetryCount
    /\ api.pc = "done" /\ api.outcome = "returned" /\ api.value = EmptyDict

(***************************************************************************)
(* C13: when every attempt of a _make_request call fails at the transport  *)
(* level, the client makes exactly retry_count attempts, sleeps 2^k        *)
(* seconds after failed attempt k for k = 0 .. retry_count-2, and then     *)
(* _make_request raises the transport error; it never makes more than      *)
(* retry_count attempts and never sleeps after the last one.               *)
(***************************************************************************)
Backoff(n) == [k \in 1..n |-> 2 ^ (k - 1)]

C13_TransportRetriesWithBackoff ==
    (InCall /\ api.transportOnly /\ api.sends > 0)
    => /\ api.sends <= RetryCount
       /\ api.pc = "request" => api.sleeps = Backoff(api.sends - 1)
       /\ api.pc = "done" => /\ api.sends = RetryCount
                             /\ api.sleeps = Backoff(RetryCount - 1)
                             /\ api.reqFailed = "transport"

\* three attempts, sleeps of 1 s and 2 s, and the error reaches the caller
C13_Witness ==
    /\ InCall /\ api.op = "get_station_list" /\ api.transportOnly
    /\ api.pc = "done" /\ api.sends = RetryCount /\ api.sleeps = <<1, 2>>
    /\ api.reqFailed = "transport" /\ api.outcome = "raised"

(***************************************************************************)
(* C14 as claimed (caching enabled): the cache holds entries only for      *)
(* non-auth endpoints and only payloads whose success flag was true; a     *)
(* transport or application-level failure never creates or overwrites an   *)
(* entry; a successful cacheable call always writes its payload through.   *)
(***************************************************************************)
OkStep == api.pc = "request" /\ api'.pc = "done" /\ api'.reqFailed = "none"

OnlySuccessOfNonAuth(fs) ==
    /\ \A k \in DOMAIN fs :
          \/ fs[k] \in {Absent, Partial}
          \/ /\ fs[k].kind = "record"
             /\ fs[k].endpoint \notin {"/thirdData/login", "/thirdData/logout"}
             /\ fs[k].data = Result
    /\ fs[KeyOf(LoginRequest)] = Absent
    /\ fs[KeyOf(OpRequest("logout"))] = Absent

OnlySuccessWrites ==
    \A k \in DOMAIN files :
        files'[k] # files[k]
        => \/ files'[k] = Absent
           \/ OkStep /\ k = KeyOf(OpRequest(api.op))

C14_SuccessAlwaysWritesThrough ==
    [][/\ OnlySuccessOfNonAuth(files')
       /\ OnlySuccessWrites
       /\ (OkStep /\ enabled /\ api.op # "logout")
          => files'[KeyOf(OpRequest(api.op))]
                = CacheData(OpRequest(api.op), Result, now)]_vars

(***************************************************************************)
(* C14 as amended: the same, but a successful cacheable call writes its    *)
(* payload through when caching is enabled and the cache write itself does *)
(* not fail; a failed write is swallowed and leaves no complete new entry  *)
(* (the file keeps what it held, or holds a truncated record).             *)
(***************************************************************************)
C14_SuccessWritesThroughUnlessWriteFails ==
    [][/\ OnlySuccessOfNonAuth(files')
       /\ OnlySuccessWrites
       /\ (OkStep /\ api.op # "logout")
          => LET k == KeyOf(OpRequest(api.op)) IN
             IF enabled /\ api'.cacheWrite = "stored"
             THEN files'[k] = CacheData(OpRequest(api.op), Result, now)
             ELSE files'[k] \in {files[k], Partial}]_vars

\* a successful call has written its payload through, after a logout that
\* succeeded and stored nothing
C14_Witness ==
    /\ InCall /\ api.pc = "done" /\ api.outcome = "returned" /\ enabled
    /\ api.cacheWrite = "stored" /\ api.value = Result
    /\ files[KeyOf(OpRequest(api.op))].kind = "record"
    /\ files[KeyOf(OpRequest(api.op))].data = Result
    /\ files[KeyOf(OpRequest("logout"))] = Absent

(***************************************************************************)
(* C15: each of the nine domain operations logs in before anything else    *)
(* exactly when the token is absent or now >= token_expiry, and does not   *)
(* when a token is present and now < token_expiry; a login that succeeds   *)
(* at time t sets token_expiry = t + the validity window, whatever the     *)
(* server answered.                                                        *)
(***************************************************************************)
CallStep == api.pc \in {"idle", "done"} /\ api' # api /\ api'.op # "logout"

LoginOkStep ==
    /\ api.pc \in {"gate_login", "relogin"} /\ api.op # "logout"
    /\ api'.lastLogin \in {"ok", "ok_no_token"}

C15_GateLoginIffTokenInvalid ==
    [][/\ CallStep
          => IF token = None \/ token_expiry = None \/ now >= token_expiry.t
             THEN /\ api'.pc = "gate_login" /\ api'.logins = 1
                  /\ api'.sends = 0 /\ files' = files
             ELSE api'.pc # "gate_login" /\ api'.logins = 0
       /\ LoginOkStep => token_expiry' = Time(now + TokenTicks)]_vars

\* the gate logs in for a token that is present and has just expired
C15_Witness ==
    /\ InCall /\ api.pc = "gate_login" /\ api.op = "get_alarm_list"
    /\ token # None /\ token_expiry # None /\ now = token_expiry.t

(***************************************************************************)
(* C16: once a login has been rejected with the invalid-credentials code,  *)
(* the client sends no further login for the same domain operation.        *)
(***************************************************************************)
C16_InvalidCredentialsNotRetried ==
    InCall => ~(/\ api.pc \in {"gate_login", "relogin"}
                /\ api.lastLogin = "invalid_credentials")

(***************************************************************************)
(* C17: a quota rejection (failCode 407) reaches the caller differently    *)
(* from an invalid-credentials rejection (failCode 20400): what login      *)
(* returns or raises after a quota rejection is not what it returns or     *)
(* raises after an invalid-credentials rejection, and a domain operation   *)
(* whose request is rejected for quota raises the error that carries the   *)
(* code (it does not log in again).                                        *)
(***************************************************************************)
C17_QuotaDistinctFromCredentials ==
    /\ (InCall /\ api.lastLogin = "quota")
       => api.lastRet # Login(token, token_expiry, header, now,
                              "invalid_credentials", Token("T1")).ret
    /\ (InCall /\ api.pc = "done" /\ api.reqFailed = "quota")
       => api.outcome = "raised"

(***************************************************************************)
(* C18: logout called with a token set leaves token = None and             *)
(* token_expiry = None and returns without raising, whether the remote     *)
(* logout succeeds, returns a failure flag, triggers a re-login or raises; *)
(* the next domain operation logs in again.                                *)
(***************************************************************************)
C18_LogoutClearsToken ==
    [][/\ (api'.op = "logout" /\ api'.pc = "done" /\ api'.sends > 0)
          => /\ token' = None /\ token_expiry' = None
             /\ api'.outcome = "returned"
       /\ (api.op = "logout" /\ api.pc = "done" /\ api.sends > 0
              /\ api'.op # "logout")
          => api'.pc = "gate_login" /\ api'.logins = 1]_vars

\* the logout request drew an auth error and the re-login succeeded: the
\* token that login set is cleared all the same
C18_Witness ==
    /\ api.op = "logout" /\ api.pc = "done" /\ api.sends = 1
    /\ api.relogins = 1 /\ api.lastLogin = "ok" /\ api.outcome = "returned"
    /\ token = None /\ token_expiry = None

(***************************************************************************)
(* C20: a cache record that cannot be parsed makes get return None and the *)
(* operation goes on to the network, as it does with caching disabled; a   *)
(* cache write that fails makes set return normally and the operation      *)
(* returns the payload, as it does with caching disabled.                  *)
(***************************************************************************)
EnterStep ==
    \/ /\ api.pc \in {"idle", "done"} /\ api' # api
       /\ api'.op # "logout" /\ api'.pc # "gate_login"
    \/ /\ api.pc = "gate_login" /\ api'.lastRet \in {"True", "False"}

C20_CacheFailuresDoNotPropagate ==
    [][/\ (EnterStep /\ enabled /\ files[KeyOf(OpRequest(api'.op))] = Partial)
          => /\ api'.pc = "request" /\ api'.sends = 1
             /\ api'.outcome = "pending" /\ files' = files
       /\ (OkStep /\ api'.cacheWrite \in {"open_fails", "dump_fails"})
          => /\ api'.pc = "done" /\ api'.outcome = "returned"
             /\ api'.value = Result]_vars

\* the lookup met a truncated record, the request went out and succeeded,
\* the write failed at open(): the payload is returned
C20_Witness ==
    /\ InCall /\ enabled /\ api.pc = "done" /\ api.sends = 1
    /\ api.cacheWrite = "open_fails"
    /\ files[KeyOf(OpRequest(api.op))] = Partial
    /\ api.outcome = "returned" /\ api.value = Result

(***************************************************************************)
(* C4: with caching enabled, a get after a completed set of the same      *)
(* endpoint and the same key/value pairs (in any key order), with no set   *)
(* or clear on that key in between, returns the payload while the time     *)
(* elapsed since the set is at most the TTL, and None once it exceeds it.  *)
(***************************************************************************)
C4_GetAfterSet ==
    (cacheRet # None /\ cacheRet.op = "get" /\ enabled
        /\ written[Logical(cacheRet.req)] # None)
    => LET w == written[Logical(cacheRet.req)] IN
       IF cacheRet.at - w.timestamp <= TtlTicks
       THEN cacheRet.value = w.data
       ELSE cacheRet.value = None

\* a hit at the very end of the TTL, through the other key order
C4_Witness ==
    /\ cacheRet # None /\ cacheRet.op = "get" /\ enabled
    /\ written[Logical(cacheRet.req)] # None
    /\ written[Logical(cacheRet.req)].params # cacheRet.req.params
    /\ cacheRet.at - written[Logical(cacheRet.req)].timestamp = TtlTicks
    /\ cacheRet.value = written[Logical(cacheRet.req)].data

(***************************************************************************)
(* C11 as claimed: a get that finds the entry absent or expired leaves the *)
(* cache store unchanged (no record created, modified or removed), and the *)
(* same get made again returns the same result.                            *)
(***************************************************************************)
GetStep(r) ==
    /\ setPc = Idle /\ setPc' = Idle /\ now' = now
    /\ cacheRet' # None /\ cacheRet'.op = "get" /\ cacheRet'.req = r
    /\ cacheRet'.at = now /\ cacheRet'.found = files[KeyOf(r)]

FoundExpired(f, t) == f # Absent /\ f # Partial /\ t - f.timestamp > TtlTicks

C11_MissLeavesStoreUnchanged ==
    [][\A r \in CacheRequests :
          (GetStep(r) /\ enabled
              /\ (files[KeyOf(r)] = Absent \/ FoundExpired(files[KeyOf(r)], now)))
          => /\ files' = files
             /\ CacheGetValue(files', enabled', now', r) = cacheRet'.value]_vars

(***************************************************************************)
(* C11 as amended: a get that finds the entry absent leaves the store      *)
(* unchanged; a get that finds it expired removes that entry's record and  *)
(* touches no other; both return None, and so does the same get made       *)
(* again.                                                                  *)
(***************************************************************************)
C11_MissRemovesOnlyExpired ==
    [][\A r \in CacheRequests :
          (GetStep(r) /\ enabled
              /\ (files[KeyOf(r)] = Absent \/ FoundExpired(files[KeyOf(r)], now)))
          => /\ files' = [files EXCEPT ![KeyOf(r)] = Absent]
             /\ cacheRet'.value = None
             /\ CacheGetValue(files', enabled', now', r) = None]_vars

\* a get found an expired record and removed it, beside another record kept
C11_Witness ==
    /\ setPc = Idle /\ enabled
    /\ cacheRet # None /\ cacheRet.op = "get" /\ cacheRet.value = None
    /\ FoundExpired(cacheRet.found, cacheRet.at)
    /\ files[KeyOf(cacheRet.req)] = Absent
    /\ \E k \in DOMAIN files : files[k] # Absent /\ files[k] # Partial

(***************************************************************************)
(* C12: an entry is valid exactly while now - timestamp <= ttl: a get on   *)
(* a record whose age is at most the TTL (the TTL itself included) returns *)
(* its payload and keeps the record; a get on a record whose age exceeds   *)
(* the TTL deletes the record from the store and returns None.             *)
(***************************************************************************)
C12_ValidUpToTtl ==
    (setPc = Idle /\ enabled /\ cacheRet # None /\ cacheRet.op = "get"
        /\ cacheRet.found # Absent /\ cacheRet.found # Partial)
    => LET f == cacheRet.found
           k == KeyOf(cacheRet.req)
       IN IF cacheRet.at - f.timestamp <= TtlTicks
          THEN cacheRet.value = f.data /\ files[k] = f
          ELSE cacheRet.value = None /\ files[k] = Absent

\* a get on a record whose age is exactly the TTL
C12_Witness ==
    /\ setPc = Idle /\ enabled /\ cacheRet # None /\ cacheRet.op = "get"
    /\ cacheRet.found # Absent /\ cacheRet.found # Partial
    /\ cacheRet.at - cacheRet.found.timestamp = TtlTicks
    /\ cacheRet.value = cacheRet.found.data
    /\ files[KeyOf(cacheRet.req)] = cacheRet.found

(***************************************************************************)
(* C19: with caching disabled, whatever the calls, get returns None, set   *)
(* stores nothing, clear removes nothing and returns 0, stats reports      *)
(* enabled = false with zero files, and the cache store is never modified. *)
(***************************************************************************)
C19_DisabledCacheIsNoOp ==
    [][~enabled
       => /\ files' = files /\ ~enabled' /\ setPc' = Idle
          /\ (cacheRet' # cacheRet)
             => CASE cacheRet'.op = "get" -> cacheRet'.value = None
                  [] cacheRet'.op = "set" -> TRUE
                  [] cacheRet'.op = "clear" -> cacheRet'.removed = 0
                  [] cacheRet'.op = "stats" ->
                        /\ cacheRet'.stats.enabled = FALSE
                        /\ cacheRet'.stats.total_files = 0
                  [] OTHER -> FALSE]_vars

\* a disabled cache over a directory that holds an unexpired record: the get
\* of that record returned None and the record is still there
C19_Witness ==
    /\ ~enabled /\ cacheRet # None /\ cacheRet.op = "get"
    /\ cacheRet.found # Absent /\ cacheRet.found # Partial
    /\ cacheRet.at - cacheRet.found.timestamp <= TtlTicks
    /\ cacheRet.value = None
    /\ files[KeyOf(cacheRet.req)] = cacheRet.found

(***************************************************************************)
(* C5: _generate_key gives the same key for every reordering of the keys   *)
(* of params, and different keys for two calls that differ in the endpoint *)
(* or in the value of a parameter.                                         *)
(***************************************************************************)
C5_KeyInvariantAndSensitive ==
    keyOut # None =>
        (keyOut.k1 = keyOut.k2
            <=> (keyIn.e1 = keyIn.e2 /\ SameDict(keyIn.p1, keyIn.p2)))

\* two calls whose params list the same pairs in different orders
C5_Witness ==
    /\ keyOut # None
    /\ keyIn.e1 = keyIn.e2
    /\ keyIn.p1 # keyIn.p2
    /\ Len(keyIn.p1) = 2
    /\ SameDict(keyIn.p1, keyIn.p2)
    /\ keyOut.k1 = keyOut.k2

(***************************************************************************)
(* C10: at every point in time, also between the steps of set, the file of *)
(* a key is absent, the complete previous record or the complete new one.  *)
(***************************************************************************)
C10_NoPartialRecord ==
    \A k \in DOMAIN files : files[k] = Absent \/ files[k].kind = "record"

(***************************************************************************)
(* The order of the remote fetches of one extraction.                      *)
(***************************************************************************)
\* the sub-fetches of the extraction of the month reported on, in the order
\* they were made
Chamadas == extr.atual.v.calls

\* the position of a fetch in the order the specification gives
OrdemDeclarada(op) ==
    CASE op = "get_station_list" -> 1
      [] op = "get_station_month_kpi" -> 2
      [] op = "get_station_realtime_data" -> 3
      [] op = "get_station_month_daily_kpi" -> 4
      [] op = "get_device_list" -> 5
      [] op = "get_device_realtime_kpi" -> 6
      [] op = "get_alarm_list" -> 7

\* the same with the alarms between the daily data and the device list
OrdemComAlarmesAntes(op) ==
    CASE op = "get_station_list" -> 1
      [] op = "get_station_month_kpi" -> 2
      [] op = "get_station_realtime_data" -> 3
      [] op = "get_station_month_daily_kpi" -> 4
      [] op = "get_alarm_list" -> 5
      [] op = "get_device_list" -> 6
      [] op = "get_device_realtime_kpi" -> 7

\* the realtime snapshot is fetched only for a monthly KPI with nothing to
\* read, the daily data only when asked for, and a report is aggregated only
\* after the last fetch, that of the device KPIs
FetchesAsNeeded ==
    /\ Pedido("get_station_realtime_data") => SemDados(KpiRecebido)
    /\ Pedido("get_station_month_daily_kpi") => extr.buscar_diarios
    /\ ~extr.atual.v.raised
       => /\ Chamadas[Len(Chamadas)].op = "get_device_realtime_kpi"
          /\ Pedido("get_station_realtime_data") <=> SemDados(KpiRecebido)
          /\ Pedido("get_station_month_daily_kpi") <=> extr.buscar_diarios

(***************************************************************************)
(* C31 as claimed: an extraction makes its fetches in the order station    *)
(* list, monthly KPI, realtime snapshot (only for an empty monthly KPI),   *)
(* daily data (only if requested), device list, device KPIs, alarms, and   *)
(* aggregates after the last of them; the alarm fetch never precedes the   *)
(* device-list fetch.                                                      *)
(***************************************************************************)
C31_FetchOrderAsDeclared ==
    Extraido =>
        /\ \A i, j \in DOMAIN Chamadas :
              i < j => OrdemDeclarada(Chamadas[i].op) < OrdemDeclarada(Chamadas[j].op)
        /\ FetchesAsNeeded

(***************************************************************************)
(* C31, amended: an extraction makes its fetches in the order station      *)
(* list, monthly KPI, realtime snapshot (only for a monthly KPI with       *)
(* nothing to read), daily data (only if requested), alarms, device list,  *)
(* device KPIs, and aggregates after the last of them: the alarm fetch     *)
(* always precedes the device-list fetch.                                  *)
(***************************************************************************)
C31_FetchOrderAlarmsBeforeDevices ==
    Extraido =>
        /\ \A i, j \in DOMAIN Chamadas :
              i < j => OrdemComAlarmesAntes(Chamadas[i].op)
                           < OrdemComAlarmesAntes(Chamadas[j].op)
        /\ FetchesAsNeeded

\* an extraction that made every fetch and returned its report
C31_Witness ==
    /\ Extraido /\ ~extr.atual.v.raised
    /\ Len(Chamadas) = 7
    /\ Chamadas[5].op = "get_alarm_list" /\ Chamadas[6].op = "get_device_list"

(***************************************************************************)
(* The session across logins and logouts.                                  *)
(***************************************************************************)
\* the answer to a login request is being handled
LoginAnswered == api.pc \in {"gate_login", "relogin"}

\* the server's rejections of a login: success false, with any failCode
Rejeicoes == {"invalid_credentials", "quota", "rejected"}

(***************************************************************************)
(* C33: after logout has returned, no request of the client carries the    *)
(* token of the session logged out: the login request that the next        *)
(* domain operation sends has no XSRF-TOKEN header.                        *)
(***************************************************************************)
C33_LogoutDropsHeader ==
    [][(api.op = "logout" /\ api.pc = "done" /\ api'.pc = "gate_login")
       => header' = None]_vars

(***************************************************************************)
(* C37: a login that the server rejects, whatever the failure code,        *)
(* returns False and leaves the XSRF-TOKEN header, the token and its       *)
(* expiry as they were (a logout that was making the request then clears   *)
(* token and expiry in its own finally).                                   *)
(***************************************************************************)
C37_RejectedLoginChangesNothing ==
    [][(LoginAnswered /\ api'.lastLogin \in Rejeicoes)
       => /\ api'.lastRet = "False"
          /\ header' = header
          /\ api.op # "logout" => (token' = token /\ token_expiry' = token_expiry)]_vars

\* a session survived a rejected re-login
C37_Witness ==
    /\ api.pc \notin {"idle", "start"} /\ api.op # "logout"
    /\ api.relogins > 0 /\ api.lastLogin \in Rejeicoes /\ api.lastRet = "False"
    /\ token # None /\ token_expiry # None /\ header = token

(***************************************************************************)
(* C38: whenever login returns True the client holds a token and           *)
(* _is_token_valid is true until the validity window has elapsed, so that  *)
(* a domain operation started within the window of the last successful     *)
(* login (and before any logout) does not log in again.                    *)
(***************************************************************************)
C38_LoginTrueMeansValidToken ==
    [][/\ (LoginAnswered /\ api'.lastRet = "True" /\ api.op # "logout")
          => (token' # None /\ IsTokenValid(token', token_expiry', now'))
       /\ (api.pc \in {"idle", "done"} /\ token_expiry # None /\ now < token_expiry.t)
          => api'.pc # "gate_login"]_vars

(***************************************************************************)
(* ExtratorDados._processar_alarmes: the alarms of the month split by      *)
(* severity, counted, and the first ones listed.                           *)
(***************************************************************************)
MaxAlarmes == 12

\* (criticos + avisos)[:10]
ListaMax == 10

\* the alarmLevel values of the alarms tried; 0 stands for an alarm without
\* the field
Niveis == {0, 1, 3, 4}

\* n alarms, numbered by raiseTime, whose levels repeat a pattern of three
AlarmesDoMes(n, niveis) ==
    [i \in 1..n |->
        IF niveis[(i % 3) + 1] = 0
        THEN [alarmName |-> "A", raiseTime |-> i]
        ELSE [alarmName |-> "A", raiseTime |-> i, alarmLevel |-> niveis[(i % 3) + 1]]]

\* an alarm counted as critical only above level 3
EhCriticoAcimaDe3(alarme) == Get(alarme, "alarmLevel", 0) > 3

\* severidade >= 3
EhCritico(alarme) == Get(alarme, "alarmLevel", 0) >= 3

EhAviso(alarme) == ~EhCritico(alarme)

\* alarme_processado
AlarmeProcessado(alarme) ==
    [nome |-> Get(alarme, "alarmName", "N/A"),
     descricao |-> Get(alarme, "alarmCause", "N/A"),
     data |-> Get(alarme, "raiseTime", None),
     severidade |-> IF EhCritico(alarme) THEN "Critico" ELSE "Aviso"]

\* ExtratorDados._processar_alarmes
ProcessarAlarmes(alarmes) ==
    IF alarmes = <<>>
    THEN [total |-> 0, criticos |-> 0, avisos |-> 0, lista |-> <<>>]
    ELSE LET c == SelectSeq(alarmes, EhCritico)
             a == SelectSeq(alarmes, EhAviso)
             criticos == [i \in DOMAIN c |-> AlarmeProcessado(c[i])]
             avisos == [i \in DOMAIN a |-> AlarmeProcessado(a[i])]
         IN [total |-> Len(alarmes),
             criticos |-> Len(criticos),
             avisos |-> Len(avisos),
             lista |-> SubSeq(criticos \o avisos, 1,
                              Min(ListaMax, Len(criticos) + Len(avisos)))]

AlmInit ==
    /\ \E n \in 0..MaxAlarmes, niveis \in [1..3 -> Niveis] :
        alm = [alarmes |-> AlarmesDoMes(n, niveis), ret |-> None]
    /\ inv = Idle /\ mensal = Idle /\ extr = Idle
    /\ calc = Idle /\ sem = Idle /\ lote = Idle
    /\ ana = Idle /\ rl = Idle /\ est = Idle /\ dia = Idle
    /\ CacheIdle /\ KeyIdle /\ ApiIdle

\* alarmes_processados = self._processar_alarmes(alarmes)
Alarmar ==
    /\ alm # Idle /\ alm.ret = None
    /\ alm' = [alm EXCEPT !.ret = Some(ProcessarAlarmes(alm.alarmes))]
    /\ UNCHANGED notAlm

AlmNext == Alarmar

SpecAlarmes == AlmInit /\ [][AlmNext]_vars

\* the raiseTime of the input alarms of level 3 or more, then of the others,
\* each group in the order of the input
NumerosPorNivel(alarmes) ==
    LET nivel(x) == IF "alarmLevel" \in DOMAIN x THEN x.alarmLevel ELSE 0
        c == SelectSeq(alarmes, LAMBDA x : nivel(x) >= 3)
        a == SelectSeq(alarmes, LAMBDA x : nivel(x) < 3)
    IN [i \in DOMAIN c |-> c[i].raiseTime] \o [i \in DOMAIN a |-> a[i].raiseTime]

\* how many input alarms have level 3 or more
QuantosCriticos(alarmes) ==
    Cardinality({i \in DOMAIN alarmes :
                    "alarmLevel" \in DOMAIN alarmes[i] /\ alarmes[i].alarmLevel >= 3})

(***************************************************************************)
(* C34: _processar_alarmes counts as critical the alarms with alarmLevel   *)
(* >= 3 and as warnings the others, total = criticos + avisos = number of  *)
(* input alarms, and lists exactly min(10, total) alarms: the prefix of    *)
(* the critical alarms followed by the warnings, so that in the list every *)
(* critical alarm precedes every warning.                                  *)
(***************************************************************************)
C34_AlarmsSplitCountedAndTruncated ==
    (alm # Idle /\ alm.ret # None) =>
        LET r == alm.ret.v
            n == Len(alm.alarmes)
            k == QuantosCriticos(alm.alarmes)
            ordem == NumerosPorNivel(alm.alarmes)
        IN /\ r.total = n /\ r.criticos = k /\ r.avisos = n - k
           /\ r.total = r.criticos + r.avisos
           /\ Len(r.lista) = Min(10, n)
           /\ \A i \in DOMAIN r.lista :
                 /\ r.lista[i].data = ordem[i]
                 /\ r.lista[i].severidade = (IF i <= k THEN "Critico" ELSE "Aviso")
           /\ \A i, j \in DOMAIN r.lista :
                 (r.lista[i].severidade = "Aviso" /\ r.lista[j].severidade = "Critico")
                 => j < i

\* more than ten alarms of both kinds, the list cut within the warnings
C34_Witness ==
    /\ alm # Idle /\ alm.ret # None
    /\ alm.ret.v.total > 10 /\ Len(alm.ret.v.lista) = 10
    /\ alm.ret.v.criticos > 0 /\ alm.ret.v.criticos < 10
    /\ alm.ret.v.lista[10].severidade = "Aviso"

(***************************************************************************)
(* ExtratorDados._calcular_analises: the days ranked by energy.  The       *)
(* tariff is in thousandths of a currency unit per kWh.                    *)
(***************************************************************************)
MaxLeituras == 6

\* dias_ordenados[:5]
TopMax == 5

KwhsDoDia == {0, 1004, 25506}
Tarifas == {680, 950}

\* the readings of the first n days of the month
LeiturasDe(kwhs) == [i \in DOMAIN kwhs |-> [dia |-> i, kwh |-> kwhs[i]]]

\* x put after the readings of at least its energy
RECURSIVE InsertDesc(_, _)
InsertDesc(x, s) ==
    IF s = <<>> THEN <<x>>
    ELSE IF Head(s).kwh >= x.kwh THEN <<Head(s)>> \o InsertDesc(x, Tail(s))
    ELSE <<x>> \o s

\* the readings left in the order they came
DiasNaOrdemDada(geracao_diaria) == geracao_diaria

\* sorted(geracao_diaria, key=kwh, reverse=True): the sort is stable
RECURSIVE DiasOrdenados(_)
DiasOrdenados(geracao_diaria) ==
    IF geracao_diaria = <<>> THEN <<>>
    ELSE InsertDesc(geracao_diaria[Len(geracao_diaria)],
                    DiasOrdenados(SubSeq(geracao_diaria, 1, Len(geracao_diaria) - 1)))

\* round(kwh * tarifa, 2)
Receita(kwh, tarifa) == 10 * RoundRatio(kwh * tarifa, 10000)

\* the day analysis of _calcular_analises: top5_dias, dia_maior_geracao and
\* dia_menor_geracao
AnaliseDeDias(geracao_diaria, tarifa, mes, ano) ==
    IF geracao_diaria = <<>>
    THEN [top5_dias |-> <<>>, dia_maior_geracao |-> None, dia_menor_geracao |-> None]
    ELSE LET dias_ordenados == DiasOrdenados(geracao_diaria)
             maior == dias_ordenados[1]
             menor == dias_ordenados[Len(dias_ordenados)]
         IN [top5_dias |->
                 [i \in 1..Min(TopMax, Len(dias_ordenados)) |->
                     [posicao |-> i,
                      data |-> [dia |-> dias_ordenados[i].dia, mes |-> mes, ano |-> ano],
                      kwh |-> Round2(dias_ordenados[i].kwh),
                      receita |-> Receita(dias_ordenados[i].kwh, tarifa)]],
             dia_maior_geracao |->
                 Some([data |-> [dia |-> maior.dia, mes |-> mes], kwh |-> Round2(maior.kwh)]),
             dia_menor_geracao |->
                 Some([data |-> [dia |-> menor.dia, mes |-> mes], kwh |-> Round2(menor.kwh)])]

AnaInit ==
    /\ \E n \in 0..MaxLeituras, tarifa \in Tarifas :
        \E kwhs \in [1..n -> KwhsDoDia] :
            ana = [geracao_diaria |-> LeiturasDe(kwhs), tarifa |-> tarifa,
                   mes |-> 11, ano |-> 2023, ret |-> None]
    /\ inv = Idle /\ mensal = Idle /\ extr = Idle
    /\ calc = Idle /\ sem = Idle /\ lote = Idle
    /\ alm = Idle /\ rl = Idle /\ est = Idle /\ dia = Idle
    /\ CacheIdle /\ KeyIdle /\ ApiIdle

\* dados_atual['analise'] = self._calcular_analises(dados_atual)
Analisar ==
    /\ ana # Idle /\ ana.ret = None
    /\ ana' = [ana EXCEPT
                 !.ret = Some(AnaliseDeDias(ana.geracao_diaria, ana.tarifa,
                                            ana.mes, ana.ano))]
    /\ UNCHANGED notAna

AnaNext == Analisar

SpecAnalises == AnaInit /\ [][AnaNext]_vars

\* the energy read on a day, to two decimals
KwhDoDia(d) == ((ana.geracao_diaria[d].kwh + 5) \div 10) * 10

(***************************************************************************)
(* C35: top5_dias holds min(5, n) distinct readings at positions 1..k in   *)
(* non-increasing order of energy, none of the readings left out has more  *)
(* energy than one listed, and each entry carries revenue = kwh x tariff   *)
(* (to two decimals); dia_maior_geracao is a reading of maximum energy and *)
(* dia_menor_geracao a reading of minimum energy among all n; with no      *)
(* reading top5_dias is empty and both days are null.                      *)
(***************************************************************************)
C35_TopDaysRanked ==
    (ana # Idle /\ ana.ret # None) =>
        LET r == ana.ret.v
            g == ana.geracao_diaria
            n == Len(g)
            top == r.top5_dias
            listados == {top[i].data.dia : i \in DOMAIN top}
        IN IF n = 0
           THEN top = <<>> /\ r.dia_maior_geracao = None /\ r.dia_menor_geracao = None
           ELSE /\ Len(top) = (IF n < 5 THEN n ELSE 5)
                /\ Cardinality(listados) = Len(top) /\ listados \subseteq 1..n
                /\ \A i \in DOMAIN top :
                      /\ top[i].posicao = i
                      /\ top[i].kwh = KwhDoDia(top[i].data.dia)
                      /\ top[i].receita * 1000 - g[top[i].data.dia].kwh * ana.tarifa
                            \in -5000..5000
                      /\ \A j \in DOMAIN top : i < j => top[i].kwh >= top[j].kwh
                      /\ \A d \in (1..n) \ listados : top[i].kwh >= KwhDoDia(d)
                /\ r.dia_maior_geracao # None /\ r.dia_menor_geracao # None
                /\ r.dia_maior_geracao.v.data.dia \in 1..n
                /\ r.dia_menor_geracao.v.data.dia \in 1..n
                /\ r.dia_maior_geracao.v.kwh = KwhDoDia(r.dia_maior_geracao.v.data.dia)
                /\ r.dia_menor_geracao.v.kwh = KwhDoDia(r.dia_menor_geracao.v.data.dia)
                /\ \A d \in 1..n :
                      /\ r.dia_maior_geracao.v.kwh >= KwhDoDia(d)
                      /\ r.dia_menor_geracao.v.kwh <= KwhDoDia(d)

\* six readings with a tie, the best day not the first and a day left out
C35_Witness ==
    /\ ana # Idle /\ ana.ret # None
    /\ Len(ana.geracao_diaria) = 6 /\ Len(ana.ret.v.top5_dias) = 5
    /\ ana.ret.v.top5_dias[1].data.dia # 1
    /\ ana.ret.v.top5_dias[1].kwh = ana.ret.v.top5_dias[2].kwh
    /\ ana.ret.v.top5_dias[1].receita > 0
    /\ ana.ret.v.dia_menor_geracao.v.kwh < ana.ret.v.dia_maior_geracao.v.kwh

(***************************************************************************)
(* One ExtratorDados instance over several extractions: the station list   *)
(* it keeps, the station record it finds in it and the installed power it  *)
(* reports.  Capacities and powers are in thousandths.                     *)
(***************************************************************************)
MaxExtracoes == 3

Codigos == {1, 2}

\* a station of the list, with or without its capacity
Estacao(codigo, capacity) ==
    IF capacity = None THEN [stationCode |-> codigo]
    ELSE [stationCode |-> codigo, capacity |-> capacity.v]

\* capacity as the API reports it: 0, 0.005, 99.999, 100 and 150
Capacidades == {0, 5, 99999, 100000, 150000}

\* what get_station_list may return: no station, station 1 alone, stations
\* 2 and 1
ListasDeEstacoes ==
    {<<>>}
    \cup {<<Estacao(1, c)>> : c \in {None} \cup {Some(x) : x \in Capacidades}}
    \cup {<<Estacao(2, Some(150000)), Estacao(1, Some(x))>> : x \in {5, 100000}}

\* potencia_kwp as the caller passes it
PotenciasInformadas == {None, Some(0), Some(7500000)}

\* the instance's list after a station-list call, never kept
CacheNuncaGuardado(cache_estacoes, f) == None

\* self._cache_estacoes after `self._cache_estacoes = self.api.get_station_list()`:
\* an exception leaves the assignment undone
CacheAposPedido(cache_estacoes, f) ==
    IF ApiFetch("get_station_list", f, <<>>).raised THEN cache_estacoes
    ELSE Some(f.value)

\* the loop of _obter_dados_estacao over the list it holds
ObterDadosEstacao(lista, station_code) ==
    LET achadas == SelectSeq(lista, LAMBDA s : Get(s, "stationCode", None) = station_code)
    IN IF achadas # <<>> THEN achadas[1] ELSE [stationCode |-> station_code]

\* the conversion made for every capacity up to 100
PotenciaKwpAte100(potencia_kwp, estacao) ==
    IF potencia_kwp # None THEN potencia_kwp.v
    ELSE LET capacidade_mw == Get(estacao, "capacity", 0)
         IN IF capacidade_mw # 0 /\ capacidade_mw <= 100000
            THEN capacidade_mw * 1000 ELSE capacidade_mw

\* potencia_kwp of the report: the caller's, or the station's capacity taken
\* as MW below 100
PotenciaKwp(potencia_kwp, estacao) ==
    IF potencia_kwp # None THEN potencia_kwp.v
    ELSE LET capacidade_mw == Get(estacao, "capacity", 0)
         IN IF capacidade_mw # 0 /\ capacidade_mw < 100000
            THEN capacidade_mw * 1000 ELSE capacidade_mw

\* the answers to the other sub-fetches of these extractions: the device
\* list may fail
RespostasDaEstacao(r1) ==
    {[estacoes |-> r1,
      kpi |-> [outcome |-> "ok",
               value |-> [stationCode |-> 1, dataItemMap |-> [production_power |-> 5000]]],
      realtime |-> SemResposta, diarios |-> SemResposta,
      alarmes |-> [outcome |-> "ok", value |-> Alarmes],
      dispositivos |-> r6,
      inversores |-> [outcome |-> "ok", value |-> KpiItem]] :
        r6 \in {[outcome |-> "ok", value |-> Dispositivos],
                [outcome |-> "request_failed", value |-> <<>>]}}

\* what is kept of one extraction: whether and how the station list was
\* asked for, the station record used and 'estacao.potencia_kwp' of the
\* report; without a list there is no station record to go on with
Extracao(e, r1, station_code, potencia_kwp, cache_estacoes) ==
    LET estacao == IF cache_estacoes = None THEN None
                   ELSE Some(ObterDadosEstacao(cache_estacoes.v, station_code))
    IN [op |-> "extrair_dados_mensais", station_code |-> station_code,
        informada |-> potencia_kwp, raised |-> e.raised \/ estacao = None,
        pedido |-> IF e.calls[1].op = "get_station_list" THEN r1.outcome ELSE "none",
        estacao |-> estacao,
        potencia_kwp |-> IF e.raised \/ estacao = None THEN None
                         ELSE Some(PotenciaKwp(potencia_kwp, estacao.v))]

EstInit ==
    /\ est = [cache_estacoes |-> None, listada |-> FALSE, n |-> 0, ultima |-> None]
    /\ inv = Idle /\ mensal = Idle /\ extr = Idle
    /\ calc = Idle /\ sem = Idle /\ lote = Idle
    /\ alm = Idle /\ ana = Idle /\ rl = Idle /\ dia = Idle
    /\ CacheIdle /\ KeyIdle /\ ApiIdle

\* extrair_dados_mensais on the instance
Extrair ==
    /\ est # Idle /\ est.n < MaxExtracoes
    /\ \E station_code \in Codigos, potencia_kwp \in PotenciasInformadas :
       \E r1 \in IF est.cache_estacoes # None THEN {SemResposta}
                 ELSE Fetches(ListasDeEstacoes, <<>>) :
       \E r \in RespostasDaEstacao(r1) :
        LET cache == IF est.cache_estacoes # None THEN est.cache_estacoes
                     ELSE CacheAposPedido(est.cache_estacoes, r1)
        IN est' = [cache_estacoes |-> cache,
                   listada |-> est.listada \/ (est.cache_estacoes = None /\ r1.outcome = "ok"),
                   n |-> est.n + 1,
                   ultima |-> Some(Extracao(ExtrairDadosMensais(r, 11, 2023, FALSE,
                                                est.cache_estacoes # None),
                                            r1, station_code, potencia_kwp, cache))]
    /\ UNCHANGED notEst

\* ExtratorDados.limpar_cache
LimparCache ==
    /\ est # Idle /\ est.n < MaxExtracoes
    /\ IF est.ultima = None THEN TRUE ELSE est.ultima.v.op # "limpar_cache"
    /\ est' = [est EXCEPT !.cache_estacoes = None, !.listada = FALSE,
                          !.ultima = Some([op |-> "limpar_cache"])]
    /\ UNCHANGED notEst

EstNext == Extrair \/ LimparCache

SpecEstacoes == EstInit /\ [][EstNext]_vars

\* an extraction has just ended
Extraiu == est # Idle /\ est.ultima # None /\ est.ultima.v.op = "extrair_dados_mensais"

\* the capacity of the first record of the station in the list held, or
\* None when there is no such record or it has no capacity
CapacidadeNaLista ==
    LET lista == est.cache_estacoes.v
        js == {j \in DOMAIN lista : lista[j].stationCode = est.ultima.v.station_code}
        j == CHOOSE k \in js : \A m \in js : k <= m
    IN IF js = {} \/ "capacity" \notin DOMAIN lista[j] THEN None
       ELSE Some(lista[j].capacity)

(***************************************************************************)
(* C36: the report carries the potencia_kwp the caller supplied,           *)
(* unchanged; when the caller supplied none, it carries the station        *)
(* capacity c times 1000 if 0 < c < 100, c itself if c >= 100, and 0 when  *)
(* the station record has no capacity.                                     *)
(***************************************************************************)
C36_InstalledPowerFromCallerOrStation ==
    (Extraiu /\ ~est.ultima.v.raised) =>
        LET p == est.ultima.v.potencia_kwp.v
            c == CapacidadeNaLista
        IN IF est.ultima.v.informada # None THEN p = est.ultima.v.informada.v
           ELSE /\ c = None => p = 0
                /\ (c # None /\ 0 < c.v /\ c.v < 100000) => p = c.v * 1000
                /\ (c # None /\ c.v >= 100000) => p = c.v

\* a capacity of exactly 100 used as it is, one below 100 converted, and
\* the caller's value winning over the station's
C36_Witness ==
    /\ Extraiu /\ ~est.ultima.v.raised /\ est.ultima.v.informada = None
    /\ CapacidadeNaLista = Some(100000) /\ est.ultima.v.potencia_kwp = Some(100000)

(***************************************************************************)
(* C40: on one instance, once get_station_list has returned it is not      *)
(* called again: every later extraction finds its station in the list      *)
(* held, until limpar_cache is called; a station-list call that raised     *)
(* leaves the list unset, and the next extraction asks for it again.       *)
(***************************************************************************)
C40_StationListFetchedOnce ==
    [][(est # Idle /\ est'.ultima # est.ultima /\ est'.ultima.v.op = "extrair_dados_mensais")
       => /\ est.listada => (est'.ultima.v.pedido = "none" /\ est'.cache_estacoes = est.cache_estacoes)
          /\ ~est.listada => est'.ultima.v.pedido # "none"
          /\ est'.ultima.v.pedido \in {"request_failed", "login_raised"}
             => (est'.ultima.v.raised /\ est'.cache_estacoes = None /\ ~est'.listada)
          /\ est'.ultima.v.pedido = "ok" => est'.cache_estacoes # None]_vars

\* a second extraction served from the list the first one fetched
C40_Witness ==
    /\ Extraiu /\ est.n >= 2 /\ est.listada
    /\ est.ultima.v.pedido = "none" /\ ~est.ultima.v.raised

(***************************************************************************)
(* The daily readings of one extraction, from the items that the           *)
(* month-daily KPI call returned to geracao_diaria of the report.  A       *)
(* collectTime is counted in days, day 1 being 1 October 2023; 0 stands    *)
(* for an item without collectTime.                                        *)
(***************************************************************************)
MaxItens == 3

\* the months asked for: a 30-day month and the 31-day month after it
PeriodosDiarios == {[mes |-> 11, ano |-> 2023], [mes |-> 12, ano |-> 2023]}

\* no collectTime, 31 October, 1 and 30 November, 1 and 31 December
CollectTimes == {0, 31, 32, 61, 62, 92}

\* the items of the answer: the energy under one field name or another
ItensDiarios ==
    {[collectTime |-> t, dataItemMap |-> m] :
        t \in CollectTimes,
        m \in {[inverter_power |-> 1004], [PVYield |-> 2000, inverter_power |-> 0]}}

\* datetime.fromtimestamp(timestamp_ms / 1000): the date n days after the
\* first day of the month given
RECURSIVE FromTimestamp(_, _, _)
FromTimestamp(ano, mes, n) ==
    IF n < Monthrange(ano, mes) THEN [ano |-> ano, mes |-> mes, dia |-> n + 1]
    ELSE FromTimestamp(IF mes = 12 THEN ano + 1 ELSE ano,
                       IF mes = 12 THEN 1 ELSE mes + 1,
                       n - Monthrange(ano, mes))

\* inverter_power or inverterYield or PVYield or 0
Energia(data_map) ==
    IF Get(data_map, "inverter_power", 0) # 0 THEN data_map.inverter_power
    ELSE IF Get(data_map, "inverterYield", 0) # 0 THEN data_map.inverterYield
    ELSE IF Get(data_map, "PVYield", 0) # 0 THEN data_map.PVYield
    ELSE 0

\* a day put after the days up to its own
RECURSIVE InsertDia(_, _)
InsertDia(x, s) ==
    IF s = <<>> THEN <<x>>
    ELSE IF Head(s).dia <= x.dia THEN <<Head(s)>> \o InsertDia(x, Tail(s))
    ELSE <<x>> \o s

\* dados_diarios.sort(key=lambda x: x['dia'])
RECURSIVE OrdenaPorDia(_)
OrdenaPorDia(s) ==
    IF s = <<>> THEN <<>>
    ELSE InsertDia(s[Len(s)], OrdenaPorDia(SubSeq(s, 1, Len(s) - 1)))

\* the loop of _obter_dados_diarios_mes: an item without collectTime is
\* skipped, the others give the day of the month of their date
DadosDiariosDe(dados_api) ==
    LET datados == SelectSeq(dados_api, LAMBDA item : Get(item, "collectTime", 0) # 0)
    IN OrdenaPorDia(
        [i \in DOMAIN datados |->
            [dia |-> FromTimestamp(2023, 10, datados[i].collectTime - 1).dia,
             data |-> FromTimestamp(2023, 10, datados[i].collectTime - 1),
             dataItemMap |->
                 [inverter_power |-> Energia(Get(datados[i], "dataItemMap", EmptyMap)),
                  production_power |-> Energia(Get(datados[i], "dataItemMap", EmptyMap))]]])

\* datetime(ano, mes, dia) raises ValueError for a day the month has not
DiaValido(ano, mes, d) == d >= 1 /\ d <= Monthrange(ano, mes)

\* geracao_diaria of _processar_dados_mensais, or the ValueError of
\* datetime(ano, mes, dia)
GeracaoDiaria(dados_diarios, mes, ano) ==
    IF \E i \in DOMAIN dados_diarios :
           dados_diarios[i].dia > 0 /\ ~DiaValido(ano, mes, dados_diarios[i].dia)
    THEN [raised |-> TRUE, geracao_diaria |-> <<>>]
    ELSE [raised |-> FALSE,
          geracao_diaria |->
              [i \in DOMAIN dados_diarios |->
                  [dia |-> dados_diarios[i].dia,
                   kwh |-> dados_diarios[i].dataItemMap.inverter_power]]]

DiaInit ==
    /\ \E p \in PeriodosDiarios, n \in 0..MaxItens :
       \E dados_api \in [1..n -> ItensDiarios] :
        dia = [mes |-> p.mes, ano |-> p.ano, dados_api |-> dados_api, ret |-> None]
    /\ inv = Idle /\ mensal = Idle /\ extr = Idle
    /\ calc = Idle /\ sem = Idle /\ lote = Idle
    /\ alm = Idle /\ ana = Idle /\ rl = Idle /\ est = Idle
    /\ CacheIdle /\ KeyIdle /\ ApiIdle

\* extrair_dados_mensais with buscar_diarios, as far as the daily readings go
ExtrairDiarios ==
    /\ dia # Idle /\ dia.ret = None
    /\ dia' = [dia EXCEPT
                 !.ret = Some(GeracaoDiaria(DadosDiariosDe(dia.dados_api),
                                            dia.mes, dia.ano))]
    /\ UNCHANGED notDia

DiaNext == ExtrairDiarios

SpecDiarios == DiaInit /\ [][DiaNext]_vars

(***************************************************************************)
(* C39: whatever items the month-daily KPI call returns, the extraction    *)
(* does not raise because of them, every reading kept in the report has a  *)
(* day number from 1 to the number of days of the month asked for, and no  *)
(* day number is kept twice.                                               *)
(***************************************************************************)
C39_DaysWithinMonthAndDistinct ==
    (dia # Idle /\ dia.ret # None) =>
        LET g == dia.ret.v.geracao_diaria IN
        /\ ~dia.ret.v.raised
        /\ \A i \in DOMAIN g : g[i].dia >= 1 /\ g[i].dia <= Monthrange(dia.ano, dia.mes)
        /\ \A i, j \in DOMAIN g : i # j => g[i].dia # g[j].dia

(***************************************************************************)
(* A day-by-day fetch paced by ExtratorDados._rate_limit_wait: one remote  *)
(* call after the other, each followed by the wait.  The clock of this     *)
(* fetch is rl.now; the window of 10 minutes is scaled to JanelaTicks      *)
(* ticks and a remote call takes at least one tick.                        *)
(***************************************************************************)
JanelaTicks == 8
MaxDuracao == 3
MaxChamadas == 7

\* RATE_LIMIT_CALLS
RateLimitCalls == 5

\* _rate_limit_wait up to its countdown: the seconds to sleep, 0 when no
\* wait is made
RateLimitWait(call_count, start_time, agora) ==
    IF call_count > 0 /\ call_count % RateLimitCalls = 0
    THEN LET elapsed == agora - start_time
             wait_time == JanelaTicks - (elapsed % JanelaTicks)
         IN IF wait_time > 0 /\ wait_time < JanelaTicks THEN wait_time ELSE 0
    ELSE 0

RlInit ==
    /\ rl = [now |-> 0, start_time |-> 0, call_count |-> 0,
             total_calls |-> MaxChamadas, remaining |-> 0, emitidas |-> <<>>]
    /\ inv = Idle /\ mensal = Idle /\ extr = Idle
    /\ calc = Idle /\ sem = Idle /\ lote = Idle
    /\ alm = Idle /\ ana = Idle /\ est = Idle /\ dia = Idle
    /\ CacheIdle /\ KeyIdle /\ ApiIdle

\* one remote call, which takes d ticks, then
\* _rate_limit_wait(call_count, start_time, total_calls) up to its countdown
Chamar ==
    /\ rl # Idle /\ rl.remaining = 0 /\ rl.call_count < rl.total_calls
    /\ \E d \in 1..MaxDuracao :
        rl' = [rl EXCEPT
                 !.emitidas = Append(@, rl.now),
                 !.now = @ + d,
                 !.call_count = @ + 1,
                 !.remaining = RateLimitWait(rl.call_count + 1, rl.start_time, rl.now + d)]
    /\ UNCHANGED notRl

\* one turn of the countdown: time.sleep(1); remaining -= 1
Dormir ==
    /\ rl # Idle /\ rl.remaining > 0
    /\ rl' = [rl EXCEPT !.now = @ + 1, !.remaining = @ - 1]
    /\ UNCHANGED notRl

RlNext == Chamar \/ Dormir

SpecRateLimit == RlInit /\ [][RlNext]_vars

(***************************************************************************)
(* C32: a fetch that calls _rate_limit_wait after each remote call never   *)
(* issues more than 5 remote calls within any window of 10 minutes,        *)
(* whatever the calls last: a call and the fifth call after it are at      *)
(* least one window apart.                                                 *)
(***************************************************************************)
C32_AtMostFiveCallsPerWindow ==
    rl # Idle =>
        \A i, j \in DOMAIN rl.emitidas :
            j - i >= 5 => rl.emitidas[j] - rl.emitidas[i] >= JanelaTicks

====
